---------------------------- MODULE Spec2Model ----------------------------
(***************************************************************************)
(* Model of the emotion pipeline of Empathy-Bot: the EmotionDetector       *)
(* (score normalizer, cultural adjuster, intensity classifier, record      *)
(* builder) and the keyword-based SimpleEmotionDetector it falls back to.  *)
(*                                                                         *)
(* Scores are Python floats: binary64 values, each operation rounded as    *)
(* the machine rounds it, so thresholds and ties fall where they fall in   *)
(* the source.  Texts are sequences of Unicode code points, so lower(),    *)
(* isupper(), count(), repr() and substring tests are computed.            *)
(***************************************************************************)
EXTENDS Integers, Sequences, FiniteSets, TLC

----------------------------------------------------------------------------
(* Bounds of the model                                                     *)

\* Number of calls made on one detector in a behaviour.
MaxCalls == 2

\* Longest classifier output (list of label/score items) given to the
\* Score Normalizer when it is called directly.
MaxItems == 2

----------------------------------------------------------------------------
(* Python str values                                                       *)

\* A Python str is the sequence of its characters, each character the
\* integer ord(c), its Unicode code point.  AsciiPrintable lists the
\* characters U+0020..U+007E in code point order; Ord and Str turn a text
\* written with these characters into its code points.  U+0060, which a
\* string of this notation cannot hold, stands in the list under its name
\* and is written 96 in a text.
AsciiPrintable ==
  << " ", "!", "\"", "#", "$", "%", "&", "'", "(", ")", "*", "+", ",", "-", ".", "/",
     "0", "1", "2", "3", "4", "5", "6", "7", "8", "9", ":", ";", "<", "=", ">", "?",
     "@", "A", "B", "C", "D", "E", "F", "G", "H", "I", "J", "K", "L", "M", "N", "O",
     "P", "Q", "R", "S", "T", "U", "V", "W", "X", "Y", "Z", "[", "\\", "]", "^", "_",
     "U+0060", "a", "b", "c", "d", "e", "f", "g", "h", "i", "j", "k", "l", "m", "n", "o",
     "p", "q", "r", "s", "t", "u", "v", "w", "x", "y", "z", "{", "|", "}", "~" >>
Ord(c) == 31 + CHOOSE i \in 1..Len(AsciiPrintable) : AsciiPrintable[i] = c
Str(cs) == [i \in 1..Len(cs) |-> Ord(cs[i])]

----------------------------------------------------------------------------
(* F(v) with v evaluated once, as a local variable of the source is: the   *)
(* model checker would otherwise evaluate v again at each use inside F.    *)

Apply(F(_), v) == CHOOSE r \in {F(x) : x \in {v}} : TRUE

----------------------------------------------------------------------------
(* Python floats: IEEE 754 binary64, rounded to nearest, ties to even      *)

\* A float x >= 0 is [s, e] with x = S * 2^e, where S is the integer whose
\* digits in base 2^14 are s[1] (the lowest) to s[4]: 2^52 <= S < 2^53 for
\* x > 0, and 0.0 is S = 0 with an exponent below every other.  Each float
\* has one such record, so equal floats are equal records.  Every score of
\* the source is finite, non-negative and far from overflow and underflow.
LimbBits == 14
Base == 16384
SigBits == 53

Pow2 ==
  << 1, 2, 4, 8, 16, 32, 64, 128, 256, 512, 1024, 2048, 4096, 8192, 16384 >>
TwoTo(k) == Pow2[k + 1]

Zero == [s |-> << 0, 0, 0, 0 >>, e |-> -1075]

\* Naturals of any size: sequences of digits in base 2^14, lowest first.
Limb(n, i) == IF 1 <= i /\ i <= Len(n) THEN n[i] ELSE 0

RECURSIVE Carry(_, _, _)
Carry(cols, i, c) ==
  IF i > Len(cols) THEN IF c = 0 THEN << >> ELSE << c >>
  ELSE << (cols[i] + c) % Base >> \o Carry(cols, i + 1, (cols[i] + c) \div Base)

AddNat(a, b) ==
  Carry([i \in 1..(IF Len(a) > Len(b) THEN Len(a) ELSE Len(b)) |->
           Limb(a, i) + Limb(b, i)], 1, 0)

\* The four low digits of a - b, for a >= b of at most five digits whose
\* difference has at most four.
SubNat(a, b) ==
  LET t1 == a[1] - b[1]
      t2 == a[2] - b[2] - (IF t1 < 0 THEN 1 ELSE 0)
      t3 == a[3] - b[3] - (IF t2 < 0 THEN 1 ELSE 0)
      t4 == a[4] - b[4] - (IF t3 < 0 THEN 1 ELSE 0)
  IN << t1 % Base, t2 % Base, t3 % Base, t4 % Base >>

\* a < b, from digit i down.
RECURSIVE LessFrom(_, _, _)
LessFrom(a, b, i) ==
  IF i = 0 THEN FALSE
  ELSE IF Limb(a, i) # Limb(b, i) THEN Limb(a, i) < Limb(b, i)
  ELSE LessFrom(a, b, i - 1)
LessNat(a, b) == LessFrom(a, b, IF Len(a) > Len(b) THEN Len(a) ELSE Len(b))

\* The five digits of n * q, for n of four digits and one digit q.
MulDigit(n, q) ==
  LET p1 == n[1] * q
      p2 == n[2] * q + p1 \div Base
      p3 == n[3] * q + p2 \div Base
      p4 == n[4] * q + p3 \div Base
  IN << p1 % Base, p2 % Base, p3 % Base, p4 % Base, p4 \div Base >>

\* The eight digits of the product of two four-digit naturals: each
\* column of the long multiplication with the carry of the one below.
MulNat(a, b) ==
  LET c1 == a[1] * b[1]
      c2 == a[1] * b[2] + a[2] * b[1] + c1 \div Base
      c3 == a[1] * b[3] + a[2] * b[2] + a[3] * b[1] + c2 \div Base
      c4 == a[1] * b[4] + a[2] * b[3] + a[3] * b[2] + a[4] * b[1] + c3 \div Base
      c5 == a[2] * b[4] + a[3] * b[3] + a[4] * b[2] + c4 \div Base
      c6 == a[3] * b[4] + a[4] * b[3] + c5 \div Base
      c7 == a[4] * b[4] + c6 \div Base
  IN << c1 % Base, c2 % Base, c3 % Base, c4 % Base, c5 % Base, c6 % Base,
        c7 % Base, c7 \div Base >>

\* The number of bits of n.
RECURSIVE BitLenDigit(_, _)
BitLenDigit(x, k) == IF x < TwoTo(k) THEN k ELSE BitLenDigit(x, k + 1)
RECURSIVE TopDigit(_, _)
TopDigit(n, i) == IF i = 0 \/ n[i] # 0 THEN i ELSE TopDigit(n, i - 1)
BitLen(n) ==
  LET top == TopDigit(n, Len(n))
  IN IF top = 0 THEN 0 ELSE LimbBits * (top - 1) + BitLenDigit(n[top], 1)

\* n * 2^k and floor(n / 2^k).
ShiftLeft(n, k) ==
  LET ls == k \div LimbBits
      bs == k % LimbBits
  IN [i \in 1..(Len(n) + ls + 1) |->
        (Limb(n, i - ls) % TwoTo(LimbBits - bs)) * TwoTo(bs)
          + Limb(n, i - ls - 1) \div TwoTo(LimbBits - bs)]
ShiftRight(n, k) ==
  LET ls == k \div LimbBits
      bs == k % LimbBits
  IN [i \in 1..(IF Len(n) > ls THEN Len(n) - ls ELSE 0) |->
        Limb(n, i + ls) \div TwoTo(bs)
          + (Limb(n, i + ls + 1) % TwoTo(bs)) * TwoTo(LimbBits - bs)]

\* Bit k of n, and whether a bit below bit k is set.
Bit(n, k) == (Limb(n, k \div LimbBits + 1) \div TwoTo(k % LimbBits)) % 2
LowBits(n, k) ==
  \/ \E i \in 1..(k \div LimbBits) : Limb(n, i) # 0
  \/ Limb(n, k \div LimbBits + 1) % TwoTo(k % LimbBits) # 0

Digits4(n) == << Limb(n, 1), Limb(n, 2), Limb(n, 3), Limb(n, 4) >>

\* The float of the significand r, which a rounding up may have brought
\* to 2^53.
Renormalized(r, e) ==
  IF r[4] = TwoTo(SigBits - 3 * LimbBits)
  THEN [s |-> << 0, 0, 0, r[4] \div 2 >>, e |-> e + 1]
  ELSE [s |-> r, e |-> e]

\* The float nearest to n * 2^e, ties to the even significand, for n of
\* sh bits more than a significand and q its leading 53 bits; `inexact`
\* says that the exact value is above n * 2^e, by less than 2^e.
RoundedUp(n, e, inexact, sh, q) ==
  IF /\ Bit(n, sh - 1) = 1
     /\ inexact \/ LowBits(n, sh - 1) \/ q[1] % 2 = 1
  THEN Renormalized(Digits4(AddNat(q, << 1 >>)), e + sh)
  ELSE [s |-> q, e |-> e + sh]

Rounded(n, e, inexact, sh) ==
  IF sh <= 0 - SigBits THEN Zero
  ELSE IF sh <= 0 THEN [s |-> Digits4(ShiftLeft(n, 0 - sh)), e |-> e + sh]
  ELSE RoundedUp(n, e, inexact, sh, Digits4(ShiftRight(n, sh)))

RoundNat(n, e, inexact) == Rounded(n, e, inexact, BitLen(n) - SigBits)

\* float(n) for an int 0 <= n < 2^31.
FromInt(n) ==
  RoundNat(<< n % Base, (n \div Base) % Base, n \div (Base * Base) >>, 0, FALSE)

One == FromInt(1)

IsZero(a) == a.s[4] = 0

\* The records that may stand for a float.
Floats == [s : Seq(Nat), e : Int]

\* The sum, the product and the quotient are functions of the two floats
\* alone: each is worked out from its two arguments, wherever it is used.
Sum[a \in Floats, b \in Floats] ==
  LET hi == IF a.e >= b.e THEN a ELSE b
      lo == IF a.e >= b.e THEN b ELSE a
  IN IF hi.e - lo.e > SigBits + 2 THEN hi
     ELSE RoundNat(AddNat(ShiftLeft(hi.s, hi.e - lo.e), lo.s), lo.e, FALSE)

\* a + b
FAdd(a, b) ==
  IF IsZero(a) THEN b
  ELSE IF IsZero(b) THEN a
  ELSE Sum[a, b]

Product[a \in Floats, b \in Floats] ==
  RoundNat(MulNat(a.s, b.s), a.e + b.e, FALSE)

\* a * b
FMul(a, b) ==
  IF IsZero(a) \/ IsZero(b) THEN Zero
  ELSE Product[a, b]

\* One digit of a long division by d, whose top digit is at least Base / 2:
\* the largest q with q * d <= w, which is the estimate from the two top
\* digits of w or just below it.
RECURSIVE QuotientDigit(_, _, _)
QuotientDigit(w, d, q) ==
  IF LessNat(w, MulDigit(d, q)) THEN QuotientDigit(w, d, q - 1) ELSE q

Estimate(r, d) ==
  IF r[4] = d[4] THEN Base - 1 ELSE (r[4] * Base + r[3]) \div d[4]

\* One step of the long division by d: the remainder x.r < d gives the
\* next digit of the quotient, put below the digits found before it, and
\* the next remainder.
DivisionStep(x, d) ==
  LET w == << 0 >> \o x.r
      q == QuotientDigit(w, d, Estimate(x.r, d))
  IN [r |-> SubNat(w, MulDigit(d, q)), digits |-> << q >> \o x.digits]

\* The four digits of floor(r * Base^4 / d), lowest first, and the
\* remainder, for r < d.
LongDivision(r, d) ==
  DivisionStep(DivisionStep(DivisionStep(DivisionStep(
    [r |-> r, digits |-> << >>], d), d), d), d)

\* The float of a quotient: its first digit, 0 or 1, and the four digits
\* and the remainder of the long division.
Quotient(first, rest, e) ==
  RoundNat(rest.digits \o << first >>, e, rest.r # << 0, 0, 0, 0 >>)

\* n / d * 2^e for two significands times 8, which makes the top digit of
\* d at least Base / 2.
Divided(n, d, e) ==
  IF LessNat(n, d) THEN Quotient(0, LongDivision(n, d), e)
  ELSE Quotient(1, LongDivision(SubNat(n, d), d), e)

\* a / b for b > 0: the quotient of the significands to 56 binary places
\* and whether a remainder is left, rounded.
Ratio[a \in Floats, b \in Floats] ==
  Divided(Digits4(ShiftLeft(a.s, 3)), Digits4(ShiftLeft(b.s, 3)),
          a.e - b.e - 4 * LimbBits)

FDiv(a, b) ==
  IF IsZero(a) THEN Zero
  ELSE Ratio[a, b]

\* n / d for ints 0 <= n and 0 < d, which is also the float that the
\* decimal literal n/d with d a power of ten denotes.
Frac(n, d) == FDiv(FromInt(n), FromInt(d))

Half == Frac(1, 2)

FLess(a, b) == a.e < b.e \/ (a.e = b.e /\ LessNat(a.s, b.s))
FLeq(a, b) == ~FLess(b, a)
FMin(a, b) == IF FLess(b, a) THEN b ELSE a

----------------------------------------------------------------------------
(* Taxonomy: the keys of EmotionDetector.emotion_scores, in dict order     *)

EmotionOrder ==
  << "admiration", "amusement", "anger", "annoyance", "approval", "caring",
     "confusion", "curiosity", "desire", "disappointment", "disapproval",
     "disgust", "embarrassment", "excitement", "fear", "gratitude", "grief",
     "joy", "love", "nervousness", "optimism", "pride", "realization",
     "relief", "remorse", "sadness", "surprise", "neutral" >>

Emotions == {EmotionOrder[i] : i \in 1..Len(EmotionOrder)}

positive_emotions ==
  { "admiration", "amusement", "approval", "caring", "curiosity", "desire",
    "excitement", "gratitude", "joy", "love", "optimism", "pride",
    "realization", "relief" }

negative_emotions ==
  { "anger", "annoyance", "disappointment", "disapproval", "disgust",
    "embarrassment", "fear", "grief", "nervousness", "remorse", "sadness" }

neutral_emotions == { "surprise", "neutral", "confusion" }

\* self.emotion_scores as __init__ leaves it: every label at 0.0.
InitEmotionScores == [e \in Emotions |-> Zero]

\* sum(scores.values()) for a dict whose keys are those of `order` that it
\* holds, in that order: the values are added one after the other, each
\* sum rounded, from `total` on.
RECURSIVE SumFrom(_, _, _, _)
SumFrom(scores, order, i, total) ==
  IF i > Len(order) THEN total
  ELSE IF order[i] \in DOMAIN scores
  THEN Apply(LAMBDA next : SumFrom(scores, order, i + 1, next),
             FAdd(total, scores[order[i]]))
  ELSE SumFrom(scores, order, i + 1, total)

SumScores(scores) == SumFrom(scores, EmotionOrder, 1, Zero)

----------------------------------------------------------------------------
(* Score Normalizer: EmotionDetector._process_model_output                 *)

\* The for-loop over the items: a recognized label overwrites its score,
\* any other label sets neutral to 0.5.
RECURSIVE ApplyItems(_, _, _)
ApplyItems(scores, results, i) ==
  IF i > Len(results) THEN scores
  ELSE LET item == results[i]
           next == IF item.label \in DOMAIN scores
                   THEN [scores EXCEPT ![item.label] = item.score]
                   ELSE [scores EXCEPT !["neutral"] = Half]
       IN ApplyItems(next, results, i + 1)

\* The value of self.emotion_scores after the call, which is also the value
\* returned, from the value `scores` it had before the call.
\* The division by the sum, or neutral = 1.0 when the sum is zero.
Normalize(filled, total_score) ==
  IF FLess(Zero, total_score)
  THEN [k \in DOMAIN filled |-> FDiv(filled[k], total_score)]
  ELSE [filled EXCEPT !["neutral"] = One]

\* The normalizer without its normalization step.
ProcessModelOutput_NoNormalize(scores, results) == ApplyItems(scores, results, 1)

ProcessModelOutput(scores, results) ==
  Apply(LAMBDA filled : Apply(LAMBDA total_score : Normalize(filled, total_score),
                              SumScores(filled)),
        ApplyItems(scores, results, 1))

----------------------------------------------------------------------------
(* Cultural profiles: load_cultural_context                                *)

\* The names of the registered profiles.
Context_western == Str(<<"w","e","s","t","e","r","n">>)
Context_eastern == Str(<<"e","a","s","t","e","r","n">>)
Context_default == Str(<<"d","e","f","a","u","l","t">>)

\* The 'emotional_expression' entry of each registered profile.
emotional_expression ==
  (Context_western :> "expressive") @@ (Context_eastern :> "reserved")
    @@ (Context_default :> "adaptive")

RegisteredContexts == DOMAIN emotional_expression

\* A context argument: a str, or a value dict.get cannot hash
\* (a list, say), which makes the lookup raise TypeError.
StrContext(name) == [hashable |-> TRUE, name |-> name]
UnhashableContext == [hashable |-> FALSE, name |-> << >>]

\* The lookup with the 'eastern' profile as its fallback.
ResolveStyle_FallbackEastern(context) ==
  IF context.name \in RegisteredContexts
  THEN emotional_expression[context.name]
  ELSE emotional_expression[Context_eastern]

\* self.cultural_context.get(context, self.cultural_context.get('default', {}))
\* followed by .get('emotional_expression', 'adaptive').
ResolveStyle(context) ==
  IF context.name \in RegisteredContexts
  THEN emotional_expression[context.name]
  ELSE emotional_expression[Context_default]

----------------------------------------------------------------------------
(* Cultural Adjuster: EmotionDetector._apply_cultural_context              *)

\* *= 0.8 and *= 1.2
ReservedFactor == Frac(8, 10)
ExpressiveFactor == Frac(12, 10)

\* The style branch with the two factors exchanged.
AdjustByStyle_Swapped(scores, style) ==
  [ k \in DOMAIN scores |->
      IF style = "reserved" /\ k \notin neutral_emotions
        THEN FMul(scores[k], ExpressiveFactor)
      ELSE IF style = "expressive" /\ k \notin neutral_emotions
        THEN FMul(scores[k], ReservedFactor)
      ELSE scores[k] ]

\* The scores after the style branch and before the re-normalization.  In
\* the reserved branch the neutral-class expression is computed and dropped.
AdjustByStyle(scores, style) ==
  [ k \in DOMAIN scores |->
      IF style = "reserved" /\ k \notin neutral_emotions
        THEN FMul(scores[k], ReservedFactor)
      ELSE IF style = "expressive" /\ k \notin neutral_emotions
        THEN FMul(scores[k], ExpressiveFactor)
      ELSE scores[k] ]

\* The re-normalization that ends the adjustment.
Renormalize(adjusted_scores, total) ==
  IF FLess(Zero, total)
  THEN [k \in DOMAIN adjusted_scores |-> FDiv(adjusted_scores[k], total)]
  ELSE adjusted_scores

\* The adjuster without its re-normalization.
ApplyCulturalContext_NoRenormalize(scores, context) ==
  IF ~context.hashable
  THEN scores
  ELSE AdjustByStyle(scores, ResolveStyle(context))

ApplyCulturalContext(scores, context) ==
  IF ~context.hashable
  THEN scores                      \* except Exception: return input
  ELSE Apply(LAMBDA adjusted_scores :
               Apply(LAMBDA total : Renormalize(adjusted_scores, total),
                     SumScores(adjusted_scores)),
             AdjustByStyle(scores, ResolveStyle(context)))

----------------------------------------------------------------------------
(* Python values given as `text`, and the string operations used on them   *)

\* A str is the sequence of its characters; None and an int stand for the
\* non-string arguments.
PyStr(chars) == [kind |-> "str", chars |-> chars, val |-> 0]
PyNone == [kind |-> "none", chars |-> << >>, val |-> 0]
PyInt(v) == [kind |-> "int", chars |-> << >>, val |-> v]

\* Python truthiness: `not text` is ~Truthy(text).
Truthy(v) ==
  CASE v.kind = "str" -> Len(v.chars) > 0
    [] v.kind = "int" -> v.val # 0
    [] OTHER -> FALSE

\* Character tables of the Unicode database of the interpreter (14.0.0).
\* An entry <<lo, hi, step>> stands for the code points lo, lo + step, ...,
\* hi; a fourth component, where there is one, is the distance to the
\* lower-case letter.
InRanges(c, table) ==
  \E i \in 1..Len(table) :
     /\ table[i][1] <= c /\ c <= table[i][2]
     /\ (c - table[i][1]) % table[i][3] = 0

\* The characters c with c.isupper().
UppercaseRanges ==
  << <<65,90,1>>, <<192,214,1>>, <<216,222,1>>, <<256,310,2>>, <<313,327,2>>,
     <<330,376,2>>, <<377,381,2>>, <<385,386,1>>, <<388,390,2>>, <<391,393,2>>,
     <<394,395,1>>, <<398,401,1>>, <<403,404,1>>, <<406,408,1>>, <<412,413,1>>,
     <<415,416,1>>, <<418,422,2>>, <<423,425,2>>, <<428,430,2>>, <<431,433,2>>,
     <<434,435,1>>, <<437,439,2>>, <<440,440,1>>, <<444,444,1>>, <<452,452,1>>,
     <<455,455,1>>, <<458,458,1>>, <<461,475,2>>, <<478,494,2>>, <<497,497,1>>,
     <<500,502,2>>, <<503,504,1>>, <<506,562,2>>, <<570,571,1>>, <<573,574,1>>,
     <<577,579,2>>, <<580,582,1>>, <<584,590,2>>, <<880,882,2>>, <<886,886,1>>,
     <<895,895,1>>, <<902,904,2>>, <<905,906,1>>, <<908,910,2>>, <<911,913,2>>,
     <<914,929,1>>, <<931,939,1>>, <<975,975,1>>, <<978,980,1>>, <<984,1006,2>>,
     <<1012,1012,1>>, <<1015,1017,2>>, <<1018,1018,1>>, <<1021,1071,1>>, <<1120,1152,2>>,
     <<1162,1216,2>>, <<1217,1229,2>>, <<1232,1326,2>>, <<1329,1366,1>>, <<4256,4293,1>>,
     <<4295,4295,1>>, <<4301,4301,1>>, <<5024,5109,1>>, <<7312,7354,1>>, <<7357,7359,1>>,
     <<7680,7828,2>>, <<7838,7934,2>>, <<7944,7951,1>>, <<7960,7965,1>>, <<7976,7983,1>>,
     <<7992,7999,1>>, <<8008,8013,1>>, <<8025,8031,2>>, <<8040,8047,1>>, <<8120,8123,1>>,
     <<8136,8139,1>>, <<8152,8155,1>>, <<8168,8172,1>>, <<8184,8187,1>>, <<8450,8450,1>>,
     <<8455,8455,1>>, <<8459,8461,1>>, <<8464,8466,1>>, <<8469,8469,1>>, <<8473,8477,1>>,
     <<8484,8490,2>>, <<8491,8493,1>>, <<8496,8499,1>>, <<8510,8511,1>>, <<8517,8517,1>>,
     <<8544,8559,1>>, <<8579,8579,1>>, <<9398,9423,1>>, <<11264,11311,1>>, <<11360,11362,2>>,
     <<11363,11364,1>>, <<11367,11373,2>>, <<11374,11376,1>>, <<11378,11378,1>>, <<11381,11381,1>>,
     <<11390,11392,1>>, <<11394,11490,2>>, <<11499,11501,2>>, <<11506,11506,1>>, <<42560,42604,2>>,
     <<42624,42650,2>>, <<42786,42798,2>>, <<42802,42862,2>>, <<42873,42877,2>>, <<42878,42886,2>>,
     <<42891,42893,2>>, <<42896,42898,2>>, <<42902,42922,2>>, <<42923,42926,1>>, <<42928,42932,1>>,
     <<42934,42948,2>>, <<42949,42951,1>>, <<42953,42953,1>>, <<42960,42960,1>>, <<42966,42968,2>>,
     <<42997,42997,1>>, <<65313,65338,1>>, <<66560,66599,1>>, <<66736,66771,1>>, <<66928,66938,1>>,
     <<66940,66954,1>>, <<66956,66962,1>>, <<66964,66965,1>>, <<68736,68786,1>>, <<71840,71871,1>>,
     <<93760,93791,1>>, <<119808,119833,1>>, <<119860,119885,1>>, <<119912,119937,1>>, <<119964,119966,2>>,
     <<119967,119967,1>>, <<119970,119970,1>>, <<119973,119974,1>>, <<119977,119980,1>>, <<119982,119989,1>>,
     <<120016,120041,1>>, <<120068,120069,1>>, <<120071,120074,1>>, <<120077,120084,1>>, <<120086,120092,1>>,
     <<120120,120121,1>>, <<120123,120126,1>>, <<120128,120132,1>>, <<120134,120134,1>>, <<120138,120144,1>>,
     <<120172,120197,1>>, <<120224,120249,1>>, <<120276,120301,1>>, <<120328,120353,1>>, <<120380,120405,1>>,
     <<120432,120457,1>>, <<120488,120512,1>>, <<120546,120570,1>>, <<120604,120628,1>>, <<120662,120686,1>>,
     <<120720,120744,1>>, <<120778,120778,1>>, <<125184,125217,1>>, <<127280,127305,1>>, <<127312,127337,1>>,
     <<127344,127369,1>> >>

\* The characters whose lower-case letter is another single character.
LowercaseMapping ==
  << <<65,90,1,32>>, <<192,214,1,32>>, <<216,222,1,32>>, <<256,302,2,1>>,
     <<306,310,2,1>>, <<313,327,2,1>>, <<330,374,2,1>>, <<376,376,1,-121>>,
     <<377,381,2,1>>, <<385,385,1,210>>, <<386,388,2,1>>, <<390,390,1,206>>,
     <<391,391,1,1>>, <<393,394,1,205>>, <<395,395,1,1>>, <<398,398,1,79>>,
     <<399,399,1,202>>, <<400,400,1,203>>, <<401,401,1,1>>, <<403,403,1,205>>,
     <<404,404,1,207>>, <<406,406,1,211>>, <<407,407,1,209>>, <<408,408,1,1>>,
     <<412,412,1,211>>, <<413,413,1,213>>, <<415,415,1,214>>, <<416,420,2,1>>,
     <<422,422,1,218>>, <<423,423,1,1>>, <<425,425,1,218>>, <<428,428,1,1>>,
     <<430,430,1,218>>, <<431,431,1,1>>, <<433,434,1,217>>, <<435,437,2,1>>,
     <<439,439,1,219>>, <<440,440,1,1>>, <<444,444,1,1>>, <<452,452,1,2>>,
     <<453,453,1,1>>, <<455,455,1,2>>, <<456,456,1,1>>, <<458,458,1,2>>,
     <<459,475,2,1>>, <<478,494,2,1>>, <<497,497,1,2>>, <<498,500,2,1>>,
     <<502,502,1,-97>>, <<503,503,1,-56>>, <<504,542,2,1>>, <<544,544,1,-130>>,
     <<546,562,2,1>>, <<570,570,1,10795>>, <<571,571,1,1>>, <<573,573,1,-163>>,
     <<574,574,1,10792>>, <<577,577,1,1>>, <<579,579,1,-195>>, <<580,580,1,69>>,
     <<581,581,1,71>>, <<582,590,2,1>>, <<880,882,2,1>>, <<886,886,1,1>>,
     <<895,895,1,116>>, <<902,902,1,38>>, <<904,906,1,37>>, <<908,908,1,64>>,
     <<910,911,1,63>>, <<913,929,1,32>>, <<931,939,1,32>>, <<975,975,1,8>>,
     <<984,1006,2,1>>, <<1012,1012,1,-60>>, <<1015,1015,1,1>>, <<1017,1017,1,-7>>,
     <<1018,1018,1,1>>, <<1021,1023,1,-130>>, <<1024,1039,1,80>>, <<1040,1071,1,32>>,
     <<1120,1152,2,1>>, <<1162,1214,2,1>>, <<1216,1216,1,15>>, <<1217,1229,2,1>>,
     <<1232,1326,2,1>>, <<1329,1366,1,48>>, <<4256,4293,1,7264>>, <<4295,4295,1,7264>>,
     <<4301,4301,1,7264>>, <<5024,5103,1,38864>>, <<5104,5109,1,8>>, <<7312,7354,1,-3008>>,
     <<7357,7359,1,-3008>>, <<7680,7828,2,1>>, <<7838,7838,1,-7615>>, <<7840,7934,2,1>>,
     <<7944,7951,1,-8>>, <<7960,7965,1,-8>>, <<7976,7983,1,-8>>, <<7992,7999,1,-8>>,
     <<8008,8013,1,-8>>, <<8025,8031,2,-8>>, <<8040,8047,1,-8>>, <<8072,8079,1,-8>>,
     <<8088,8095,1,-8>>, <<8104,8111,1,-8>>, <<8120,8121,1,-8>>, <<8122,8123,1,-74>>,
     <<8124,8124,1,-9>>, <<8136,8139,1,-86>>, <<8140,8140,1,-9>>, <<8152,8153,1,-8>>,
     <<8154,8155,1,-100>>, <<8168,8169,1,-8>>, <<8170,8171,1,-112>>, <<8172,8172,1,-7>>,
     <<8184,8185,1,-128>>, <<8186,8187,1,-126>>, <<8188,8188,1,-9>>, <<8486,8486,1,-7517>>,
     <<8490,8490,1,-8383>>, <<8491,8491,1,-8262>>, <<8498,8498,1,28>>, <<8544,8559,1,16>>,
     <<8579,8579,1,1>>, <<9398,9423,1,26>>, <<11264,11311,1,48>>, <<11360,11360,1,1>>,
     <<11362,11362,1,-10743>>, <<11363,11363,1,-3814>>, <<11364,11364,1,-10727>>, <<11367,11371,2,1>>,
     <<11373,11373,1,-10780>>, <<11374,11374,1,-10749>>, <<11375,11375,1,-10783>>, <<11376,11376,1,-10782>>,
     <<11378,11378,1,1>>, <<11381,11381,1,1>>, <<11390,11391,1,-10815>>, <<11392,11490,2,1>>,
     <<11499,11501,2,1>>, <<11506,11506,1,1>>, <<42560,42604,2,1>>, <<42624,42650,2,1>>,
     <<42786,42798,2,1>>, <<42802,42862,2,1>>, <<42873,42875,2,1>>, <<42877,42877,1,-35332>>,
     <<42878,42886,2,1>>, <<42891,42891,1,1>>, <<42893,42893,1,-42280>>, <<42896,42898,2,1>>,
     <<42902,42920,2,1>>, <<42922,42922,1,-42308>>, <<42923,42923,1,-42319>>, <<42924,42924,1,-42315>>,
     <<42925,42925,1,-42305>>, <<42926,42926,1,-42308>>, <<42928,42928,1,-42258>>, <<42929,42929,1,-42282>>,
     <<42930,42930,1,-42261>>, <<42931,42931,1,928>>, <<42932,42946,2,1>>, <<42948,42948,1,-48>>,
     <<42949,42949,1,-42307>>, <<42950,42950,1,-35384>>, <<42951,42953,2,1>>, <<42960,42960,1,1>>,
     <<42966,42968,2,1>>, <<42997,42997,1,1>>, <<65313,65338,1,32>>, <<66560,66599,1,40>>,
     <<66736,66771,1,40>>, <<66928,66938,1,39>>, <<66940,66954,1,39>>, <<66956,66962,1,39>>,
     <<66964,66965,1,39>>, <<68736,68786,1,64>>, <<71840,71871,1,32>>, <<93760,93791,1,32>>,
     <<125184,125217,1,34>> >>

\* The cased characters: lower-case, upper-case and title-case letters.
CasedRanges ==
  << <<65,90,1>>, <<97,122,1>>, <<170,170,1>>, <<181,181,1>>, <<186,186,1>>,
     <<192,214,1>>, <<216,246,1>>, <<248,442,1>>, <<444,447,1>>, <<452,659,1>>,
     <<661,696,1>>, <<704,705,1>>, <<736,740,1>>, <<837,837,1>>, <<880,883,1>>,
     <<886,887,1>>, <<890,893,1>>, <<895,895,1>>, <<902,904,2>>, <<905,906,1>>,
     <<908,910,2>>, <<911,929,1>>, <<931,1013,1>>, <<1015,1153,1>>, <<1162,1327,1>>,
     <<1329,1366,1>>, <<1376,1416,1>>, <<4256,4293,1>>, <<4295,4295,1>>, <<4301,4301,1>>,
     <<4304,4346,1>>, <<4349,4351,1>>, <<5024,5109,1>>, <<5112,5117,1>>, <<7296,7304,1>>,
     <<7312,7354,1>>, <<7357,7359,1>>, <<7424,7615,1>>, <<7680,7957,1>>, <<7960,7965,1>>,
     <<7968,8005,1>>, <<8008,8013,1>>, <<8016,8023,1>>, <<8025,8031,2>>, <<8032,8061,1>>,
     <<8064,8116,1>>, <<8118,8124,1>>, <<8126,8126,1>>, <<8130,8132,1>>, <<8134,8140,1>>,
     <<8144,8147,1>>, <<8150,8155,1>>, <<8160,8172,1>>, <<8178,8180,1>>, <<8182,8188,1>>,
     <<8305,8305,1>>, <<8319,8319,1>>, <<8336,8348,1>>, <<8450,8450,1>>, <<8455,8455,1>>,
     <<8458,8467,1>>, <<8469,8469,1>>, <<8473,8477,1>>, <<8484,8490,2>>, <<8491,8493,1>>,
     <<8495,8500,1>>, <<8505,8505,1>>, <<8508,8511,1>>, <<8517,8521,1>>, <<8526,8526,1>>,
     <<8544,8575,1>>, <<8579,8580,1>>, <<9398,9449,1>>, <<11264,11492,1>>, <<11499,11502,1>>,
     <<11506,11507,1>>, <<11520,11557,1>>, <<11559,11559,1>>, <<11565,11565,1>>, <<42560,42605,1>>,
     <<42624,42653,1>>, <<42786,42887,1>>, <<42891,42894,1>>, <<42896,42954,1>>, <<42960,42961,1>>,
     <<42963,42965,2>>, <<42966,42969,1>>, <<42997,42998,1>>, <<43000,43002,1>>, <<43824,43866,1>>,
     <<43868,43880,1>>, <<43888,43967,1>>, <<64256,64262,1>>, <<64275,64279,1>>, <<65313,65338,1>>,
     <<65345,65370,1>>, <<66560,66639,1>>, <<66736,66771,1>>, <<66776,66811,1>>, <<66928,66938,1>>,
     <<66940,66954,1>>, <<66956,66962,1>>, <<66964,66965,1>>, <<66967,66977,1>>, <<66979,66993,1>>,
     <<66995,67001,1>>, <<67003,67004,1>>, <<67456,67456,1>>, <<67459,67461,1>>, <<67463,67504,1>>,
     <<67506,67514,1>>, <<68736,68786,1>>, <<68800,68850,1>>, <<71840,71903,1>>, <<93760,93823,1>>,
     <<119808,119892,1>>, <<119894,119964,1>>, <<119966,119967,1>>, <<119970,119970,1>>, <<119973,119974,1>>,
     <<119977,119980,1>>, <<119982,119993,1>>, <<119995,119997,2>>, <<119998,120003,1>>, <<120005,120069,1>>,
     <<120071,120074,1>>, <<120077,120084,1>>, <<120086,120092,1>>, <<120094,120121,1>>, <<120123,120126,1>>,
     <<120128,120132,1>>, <<120134,120134,1>>, <<120138,120144,1>>, <<120146,120485,1>>, <<120488,120512,1>>,
     <<120514,120538,1>>, <<120540,120570,1>>, <<120572,120596,1>>, <<120598,120628,1>>, <<120630,120654,1>>,
     <<120656,120686,1>>, <<120688,120712,1>>, <<120714,120744,1>>, <<120746,120770,1>>, <<120772,120779,1>>,
     <<122624,122633,1>>, <<122635,122654,1>>, <<125184,125251,1>>, <<127280,127305,1>>, <<127312,127337,1>>,
     <<127344,127369,1>> >>

\* The case-ignorable characters, which the rule for the final sigma skips.
CaseIgnorableRanges ==
  << <<39,39,1>>, <<46,46,1>>, <<58,58,1>>, <<94,96,2>>, <<168,168,1>>,
     <<173,175,2>>, <<180,180,1>>, <<183,184,1>>, <<688,879,1>>, <<884,885,1>>,
     <<890,890,1>>, <<900,901,1>>, <<903,903,1>>, <<1155,1161,1>>, <<1369,1369,1>>,
     <<1375,1375,1>>, <<1425,1469,1>>, <<1471,1473,2>>, <<1474,1476,2>>, <<1477,1479,2>>,
     <<1524,1524,1>>, <<1536,1541,1>>, <<1552,1562,1>>, <<1564,1564,1>>, <<1600,1600,1>>,
     <<1611,1631,1>>, <<1648,1648,1>>, <<1750,1757,1>>, <<1759,1768,1>>, <<1770,1773,1>>,
     <<1807,1809,2>>, <<1840,1866,1>>, <<1958,1968,1>>, <<2027,2037,1>>, <<2042,2042,1>>,
     <<2045,2045,1>>, <<2070,2093,1>>, <<2137,2139,1>>, <<2184,2184,1>>, <<2192,2193,1>>,
     <<2200,2207,1>>, <<2249,2306,1>>, <<2362,2364,2>>, <<2369,2376,1>>, <<2381,2381,1>>,
     <<2385,2391,1>>, <<2402,2403,1>>, <<2417,2417,1>>, <<2433,2433,1>>, <<2492,2492,1>>,
     <<2497,2500,1>>, <<2509,2509,1>>, <<2530,2531,1>>, <<2558,2558,1>>, <<2561,2562,1>>,
     <<2620,2620,1>>, <<2625,2626,1>>, <<2631,2632,1>>, <<2635,2637,1>>, <<2641,2641,1>>,
     <<2672,2673,1>>, <<2677,2677,1>>, <<2689,2690,1>>, <<2748,2748,1>>, <<2753,2757,1>>,
     <<2759,2760,1>>, <<2765,2765,1>>, <<2786,2787,1>>, <<2810,2815,1>>, <<2817,2817,1>>,
     <<2876,2876,1>>, <<2879,2881,2>>, <<2882,2884,1>>, <<2893,2893,1>>, <<2901,2902,1>>,
     <<2914,2915,1>>, <<2946,2946,1>>, <<3008,3008,1>>, <<3021,3021,1>>, <<3072,3072,1>>,
     <<3076,3076,1>>, <<3132,3134,2>>, <<3135,3136,1>>, <<3142,3144,1>>, <<3146,3149,1>>,
     <<3157,3158,1>>, <<3170,3171,1>>, <<3201,3201,1>>, <<3260,3260,1>>, <<3263,3263,1>>,
     <<3270,3270,1>>, <<3276,3277,1>>, <<3298,3299,1>>, <<3328,3329,1>>, <<3387,3388,1>>,
     <<3393,3396,1>>, <<3405,3405,1>>, <<3426,3427,1>>, <<3457,3457,1>>, <<3530,3530,1>>,
     <<3538,3540,1>>, <<3542,3542,1>>, <<3633,3633,1>>, <<3636,3642,1>>, <<3654,3662,1>>,
     <<3761,3761,1>>, <<3764,3772,1>>, <<3782,3784,2>>, <<3785,3789,1>>, <<3864,3865,1>>,
     <<3893,3897,2>>, <<3953,3966,1>>, <<3968,3972,1>>, <<3974,3975,1>>, <<3981,3991,1>>,
     <<3993,4028,1>>, <<4038,4038,1>>, <<4141,4144,1>>, <<4146,4151,1>>, <<4153,4154,1>>,
     <<4157,4158,1>>, <<4184,4185,1>>, <<4190,4192,1>>, <<4209,4212,1>>, <<4226,4226,1>>,
     <<4229,4230,1>>, <<4237,4237,1>>, <<4253,4253,1>>, <<4348,4348,1>>, <<4957,4959,1>>,
     <<5906,5908,1>>, <<5938,5939,1>>, <<5970,5971,1>>, <<6002,6003,1>>, <<6068,6069,1>>,
     <<6071,6077,1>>, <<6086,6086,1>>, <<6089,6099,1>>, <<6103,6103,1>>, <<6109,6109,1>>,
     <<6155,6159,1>>, <<6211,6211,1>>, <<6277,6278,1>>, <<6313,6313,1>>, <<6432,6434,1>>,
     <<6439,6440,1>>, <<6450,6450,1>>, <<6457,6459,1>>, <<6679,6680,1>>, <<6683,6683,1>>,
     <<6742,6744,2>>, <<6745,6750,1>>, <<6752,6754,2>>, <<6757,6764,1>>, <<6771,6780,1>>,
     <<6783,6783,1>>, <<6823,6823,1>>, <<6832,6862,1>>, <<6912,6915,1>>, <<6964,6966,2>>,
     <<6967,6970,1>>, <<6972,6972,1>>, <<6978,6978,1>>, <<7019,7027,1>>, <<7040,7041,1>>,
     <<7074,7077,1>>, <<7080,7081,1>>, <<7083,7085,1>>, <<7142,7144,2>>, <<7145,7145,1>>,
     <<7149,7151,2>>, <<7152,7153,1>>, <<7212,7219,1>>, <<7222,7223,1>>, <<7288,7293,1>>,
     <<7376,7378,1>>, <<7380,7392,1>>, <<7394,7400,1>>, <<7405,7405,1>>, <<7412,7412,1>>,
     <<7416,7417,1>>, <<7468,7530,1>>, <<7544,7544,1>>, <<7579,7679,1>>, <<8125,8127,2>>,
     <<8128,8129,1>>, <<8141,8143,1>>, <<8157,8159,1>>, <<8173,8175,1>>, <<8189,8190,1>>,
     <<8203,8207,1>>, <<8216,8217,1>>, <<8228,8228,1>>, <<8231,8231,1>>, <<8234,8238,1>>,
     <<8288,8292,1>>, <<8294,8303,1>>, <<8305,8305,1>>, <<8319,8319,1>>, <<8336,8348,1>>,
     <<8400,8432,1>>, <<11388,11389,1>>, <<11503,11505,1>>, <<11631,11631,1>>, <<11647,11647,1>>,
     <<11744,11775,1>>, <<11823,11823,1>>, <<12293,12293,1>>, <<12330,12333,1>>, <<12337,12341,1>>,
     <<12347,12347,1>>, <<12441,12446,1>>, <<12540,12542,1>>, <<40981,40981,1>>, <<42232,42237,1>>,
     <<42508,42508,1>>, <<42607,42610,1>>, <<42612,42621,1>>, <<42623,42623,1>>, <<42652,42655,1>>,
     <<42736,42737,1>>, <<42752,42785,1>>, <<42864,42864,1>>, <<42888,42890,1>>, <<42994,42996,1>>,
     <<43000,43001,1>>, <<43010,43010,1>>, <<43014,43014,1>>, <<43019,43019,1>>, <<43045,43046,1>>,
     <<43052,43052,1>>, <<43204,43205,1>>, <<43232,43249,1>>, <<43263,43263,1>>, <<43302,43309,1>>,
     <<43335,43345,1>>, <<43392,43394,1>>, <<43443,43443,1>>, <<43446,43449,1>>, <<43452,43453,1>>,
     <<43471,43471,1>>, <<43493,43494,1>>, <<43561,43566,1>>, <<43569,43570,1>>, <<43573,43574,1>>,
     <<43587,43587,1>>, <<43596,43596,1>>, <<43632,43632,1>>, <<43644,43644,1>>, <<43696,43698,2>>,
     <<43699,43700,1>>, <<43703,43704,1>>, <<43710,43711,1>>, <<43713,43713,1>>, <<43741,43741,1>>,
     <<43756,43757,1>>, <<43763,43764,1>>, <<43766,43766,1>>, <<43867,43871,1>>, <<43881,43883,1>>,
     <<44005,44005,1>>, <<44008,44008,1>>, <<44013,44013,1>>, <<64286,64286,1>>, <<64434,64450,1>>,
     <<65024,65039,1>>, <<65043,65043,1>>, <<65056,65071,1>>, <<65106,65106,1>>, <<65109,65109,1>>,
     <<65279,65279,1>>, <<65287,65287,1>>, <<65294,65294,1>>, <<65306,65306,1>>, <<65342,65344,2>>,
     <<65392,65392,1>>, <<65438,65439,1>>, <<65507,65507,1>>, <<65529,65531,1>>, <<66045,66045,1>>,
     <<66272,66272,1>>, <<66422,66426,1>>, <<67456,67461,1>>, <<67463,67504,1>>, <<67506,67514,1>>,
     <<68097,68099,1>>, <<68101,68102,1>>, <<68108,68111,1>>, <<68152,68154,1>>, <<68159,68159,1>>,
     <<68325,68326,1>>, <<68900,68903,1>>, <<69291,69292,1>>, <<69446,69456,1>>, <<69506,69509,1>>,
     <<69633,69633,1>>, <<69688,69702,1>>, <<69744,69744,1>>, <<69747,69748,1>>, <<69759,69761,1>>,
     <<69811,69814,1>>, <<69817,69818,1>>, <<69821,69821,1>>, <<69826,69826,1>>, <<69837,69837,1>>,
     <<69888,69890,1>>, <<69927,69931,1>>, <<69933,69940,1>>, <<70003,70003,1>>, <<70016,70017,1>>,
     <<70070,70078,1>>, <<70089,70092,1>>, <<70095,70095,1>>, <<70191,70193,1>>, <<70196,70198,2>>,
     <<70199,70199,1>>, <<70206,70206,1>>, <<70367,70367,1>>, <<70371,70378,1>>, <<70400,70401,1>>,
     <<70459,70460,1>>, <<70464,70464,1>>, <<70502,70508,1>>, <<70512,70516,1>>, <<70712,70719,1>>,
     <<70722,70724,1>>, <<70726,70726,1>>, <<70750,70750,1>>, <<70835,70840,1>>, <<70842,70842,1>>,
     <<70847,70848,1>>, <<70850,70851,1>>, <<71090,71093,1>>, <<71100,71101,1>>, <<71103,71104,1>>,
     <<71132,71133,1>>, <<71219,71226,1>>, <<71229,71231,2>>, <<71232,71232,1>>, <<71339,71341,2>>,
     <<71344,71349,1>>, <<71351,71351,1>>, <<71453,71455,1>>, <<71458,71461,1>>, <<71463,71467,1>>,
     <<71727,71735,1>>, <<71737,71738,1>>, <<71995,71996,1>>, <<71998,71998,1>>, <<72003,72003,1>>,
     <<72148,72151,1>>, <<72154,72155,1>>, <<72160,72160,1>>, <<72193,72202,1>>, <<72243,72248,1>>,
     <<72251,72254,1>>, <<72263,72263,1>>, <<72273,72278,1>>, <<72281,72283,1>>, <<72330,72342,1>>,
     <<72344,72345,1>>, <<72752,72758,1>>, <<72760,72765,1>>, <<72767,72767,1>>, <<72850,72871,1>>,
     <<72874,72880,1>>, <<72882,72883,1>>, <<72885,72886,1>>, <<73009,73014,1>>, <<73018,73020,2>>,
     <<73021,73023,2>>, <<73024,73029,1>>, <<73031,73031,1>>, <<73104,73105,1>>, <<73109,73111,2>>,
     <<73459,73460,1>>, <<78896,78904,1>>, <<92912,92916,1>>, <<92976,92982,1>>, <<92992,92995,1>>,
     <<94031,94031,1>>, <<94095,94111,1>>, <<94176,94177,1>>, <<94179,94180,1>>, <<110576,110579,1>>,
     <<110581,110587,1>>, <<110589,110590,1>>, <<113821,113822,1>>, <<113824,113827,1>>, <<118528,118573,1>>,
     <<118576,118598,1>>, <<119143,119145,1>>, <<119155,119170,1>>, <<119173,119179,1>>, <<119210,119213,1>>,
     <<119362,119364,1>>, <<121344,121398,1>>, <<121403,121452,1>>, <<121461,121461,1>>, <<121476,121476,1>>,
     <<121499,121503,1>>, <<121505,121519,1>>, <<122880,122886,1>>, <<122888,122904,1>>, <<122907,122913,1>>,
     <<122915,122916,1>>, <<122918,122922,1>>, <<123184,123197,1>>, <<123566,123566,1>>, <<123628,123631,1>>,
     <<125136,125142,1>>, <<125252,125259,1>>, <<127995,127999,1>>, <<917505,917505,1>>, <<917536,917631,1>>,
     <<917760,917999,1>> >>

\* The characters c for which c.isprintable() is False.
NonPrintableRanges ==
  << <<0,31,1>>, <<127,160,1>>, <<173,173,1>>, <<888,889,1>>, <<896,899,1>>,
     <<907,909,2>>, <<930,930,1>>, <<1328,1328,1>>, <<1367,1368,1>>, <<1419,1420,1>>,
     <<1424,1424,1>>, <<1480,1487,1>>, <<1515,1518,1>>, <<1525,1541,1>>, <<1564,1564,1>>,
     <<1757,1757,1>>, <<1806,1807,1>>, <<1867,1868,1>>, <<1970,1983,1>>, <<2043,2044,1>>,
     <<2094,2095,1>>, <<2111,2111,1>>, <<2140,2141,1>>, <<2143,2143,1>>, <<2155,2159,1>>,
     <<2191,2199,1>>, <<2274,2274,1>>, <<2436,2436,1>>, <<2445,2446,1>>, <<2449,2450,1>>,
     <<2473,2473,1>>, <<2481,2483,2>>, <<2484,2485,1>>, <<2490,2491,1>>, <<2501,2502,1>>,
     <<2505,2506,1>>, <<2511,2518,1>>, <<2520,2523,1>>, <<2526,2526,1>>, <<2532,2533,1>>,
     <<2559,2560,1>>, <<2564,2564,1>>, <<2571,2574,1>>, <<2577,2578,1>>, <<2601,2601,1>>,
     <<2609,2609,1>>, <<2612,2612,1>>, <<2615,2615,1>>, <<2618,2619,1>>, <<2621,2621,1>>,
     <<2627,2630,1>>, <<2633,2634,1>>, <<2638,2640,1>>, <<2642,2648,1>>, <<2653,2655,2>>,
     <<2656,2661,1>>, <<2679,2688,1>>, <<2692,2692,1>>, <<2702,2702,1>>, <<2706,2706,1>>,
     <<2729,2729,1>>, <<2737,2737,1>>, <<2740,2740,1>>, <<2746,2747,1>>, <<2758,2758,1>>,
     <<2762,2762,1>>, <<2766,2767,1>>, <<2769,2783,1>>, <<2788,2789,1>>, <<2802,2808,1>>,
     <<2816,2816,1>>, <<2820,2820,1>>, <<2829,2830,1>>, <<2833,2834,1>>, <<2857,2857,1>>,
     <<2865,2865,1>>, <<2868,2868,1>>, <<2874,2875,1>>, <<2885,2886,1>>, <<2889,2890,1>>,
     <<2894,2900,1>>, <<2904,2907,1>>, <<2910,2910,1>>, <<2916,2917,1>>, <<2936,2945,1>>,
     <<2948,2948,1>>, <<2955,2957,1>>, <<2961,2961,1>>, <<2966,2968,1>>, <<2971,2973,2>>,
     <<2976,2978,1>>, <<2981,2983,1>>, <<2987,2989,1>>, <<3002,3005,1>>, <<3011,3013,1>>,
     <<3017,3017,1>>, <<3022,3023,1>>, <<3025,3030,1>>, <<3032,3045,1>>, <<3067,3071,1>>,
     <<3085,3085,1>>, <<3089,3089,1>>, <<3113,3113,1>>, <<3130,3131,1>>, <<3141,3141,1>>,
     <<3145,3145,1>>, <<3150,3156,1>>, <<3159,3159,1>>, <<3163,3164,1>>, <<3166,3167,1>>,
     <<3172,3173,1>>, <<3184,3190,1>>, <<3213,3213,1>>, <<3217,3217,1>>, <<3241,3241,1>>,
     <<3252,3252,1>>, <<3258,3259,1>>, <<3269,3269,1>>, <<3273,3273,1>>, <<3278,3284,1>>,
     <<3287,3292,1>>, <<3295,3295,1>>, <<3300,3301,1>>, <<3312,3312,1>>, <<3315,3327,1>>,
     <<3341,3341,1>>, <<3345,3345,1>>, <<3397,3397,1>>, <<3401,3401,1>>, <<3408,3411,1>>,
     <<3428,3429,1>>, <<3456,3456,1>>, <<3460,3460,1>>, <<3479,3481,1>>, <<3506,3506,1>>,
     <<3516,3518,2>>, <<3519,3519,1>>, <<3527,3529,1>>, <<3531,3534,1>>, <<3541,3543,2>>,
     <<3552,3557,1>>, <<3568,3569,1>>, <<3573,3584,1>>, <<3643,3646,1>>, <<3676,3712,1>>,
     <<3715,3717,2>>, <<3723,3723,1>>, <<3748,3750,2>>, <<3774,3775,1>>, <<3781,3783,2>>,
     <<3790,3791,1>>, <<3802,3803,1>>, <<3808,3839,1>>, <<3912,3912,1>>, <<3949,3952,1>>,
     <<3992,3992,1>>, <<4029,4029,1>>, <<4045,4045,1>>, <<4059,4095,1>>, <<4294,4296,2>>,
     <<4297,4300,1>>, <<4302,4303,1>>, <<4681,4681,1>>, <<4686,4687,1>>, <<4695,4697,2>>,
     <<4702,4703,1>>, <<4745,4745,1>>, <<4750,4751,1>>, <<4785,4785,1>>, <<4790,4791,1>>,
     <<4799,4801,2>>, <<4806,4807,1>>, <<4823,4823,1>>, <<4881,4881,1>>, <<4886,4887,1>>,
     <<4955,4956,1>>, <<4989,4991,1>>, <<5018,5023,1>>, <<5110,5111,1>>, <<5118,5119,1>>,
     <<5760,5760,1>>, <<5789,5791,1>>, <<5881,5887,1>>, <<5910,5918,1>>, <<5943,5951,1>>,
     <<5972,5983,1>>, <<5997,5997,1>>, <<6001,6001,1>>, <<6004,6015,1>>, <<6110,6111,1>>,
     <<6122,6127,1>>, <<6138,6143,1>>, <<6158,6158,1>>, <<6170,6175,1>>, <<6265,6271,1>>,
     <<6315,6319,1>>, <<6390,6399,1>>, <<6431,6431,1>>, <<6444,6447,1>>, <<6460,6463,1>>,
     <<6465,6467,1>>, <<6510,6511,1>>, <<6517,6527,1>>, <<6572,6575,1>>, <<6602,6607,1>>,
     <<6619,6621,1>>, <<6684,6685,1>>, <<6751,6751,1>>, <<6781,6782,1>>, <<6794,6799,1>>,
     <<6810,6815,1>>, <<6830,6831,1>>, <<6863,6911,1>>, <<6989,6991,1>>, <<7039,7039,1>>,
     <<7156,7163,1>>, <<7224,7226,1>>, <<7242,7244,1>>, <<7305,7311,1>>, <<7355,7356,1>>,
     <<7368,7375,1>>, <<7419,7423,1>>, <<7958,7959,1>>, <<7966,7967,1>>, <<8006,8007,1>>,
     <<8014,8015,1>>, <<8024,8030,2>>, <<8062,8063,1>>, <<8117,8117,1>>, <<8133,8133,1>>,
     <<8148,8149,1>>, <<8156,8156,1>>, <<8176,8177,1>>, <<8181,8181,1>>, <<8191,8207,1>>,
     <<8232,8239,1>>, <<8287,8303,1>>, <<8306,8307,1>>, <<8335,8335,1>>, <<8349,8351,1>>,
     <<8385,8399,1>>, <<8433,8447,1>>, <<8588,8591,1>>, <<9255,9279,1>>, <<9291,9311,1>>,
     <<11124,11125,1>>, <<11158,11158,1>>, <<11508,11512,1>>, <<11558,11560,2>>, <<11561,11564,1>>,
     <<11566,11567,1>>, <<11624,11630,1>>, <<11633,11646,1>>, <<11671,11679,1>>, <<11687,11687,1>>,
     <<11695,11695,1>>, <<11703,11703,1>>, <<11711,11711,1>>, <<11719,11719,1>>, <<11727,11727,1>>,
     <<11735,11735,1>>, <<11743,11743,1>>, <<11870,11903,1>>, <<11930,11930,1>>, <<12020,12031,1>>,
     <<12246,12271,1>>, <<12284,12288,1>>, <<12352,12352,1>>, <<12439,12440,1>>, <<12544,12548,1>>,
     <<12592,12592,1>>, <<12687,12687,1>>, <<12772,12783,1>>, <<12831,12831,1>>, <<42125,42127,1>>,
     <<42183,42191,1>>, <<42540,42559,1>>, <<42744,42751,1>>, <<42955,42959,1>>, <<42962,42964,2>>,
     <<42970,42993,1>>, <<43053,43055,1>>, <<43066,43071,1>>, <<43128,43135,1>>, <<43206,43213,1>>,
     <<43226,43231,1>>, <<43348,43358,1>>, <<43389,43391,1>>, <<43470,43470,1>>, <<43482,43485,1>>,
     <<43519,43519,1>>, <<43575,43583,1>>, <<43598,43599,1>>, <<43610,43611,1>>, <<43715,43738,1>>,
     <<43767,43776,1>>, <<43783,43784,1>>, <<43791,43792,1>>, <<43799,43807,1>>, <<43815,43815,1>>,
     <<43823,43823,1>>, <<43884,43887,1>>, <<44014,44015,1>>, <<44026,44031,1>>, <<55204,55215,1>>,
     <<55239,55242,1>>, <<55292,63743,1>>, <<64110,64111,1>>, <<64218,64255,1>>, <<64263,64274,1>>,
     <<64280,64284,1>>, <<64311,64311,1>>, <<64317,64319,2>>, <<64322,64322,1>>, <<64325,64325,1>>,
     <<64451,64466,1>>, <<64912,64913,1>>, <<64968,64974,1>>, <<64976,65007,1>>, <<65050,65055,1>>,
     <<65107,65107,1>>, <<65127,65127,1>>, <<65132,65135,1>>, <<65141,65141,1>>, <<65277,65280,1>>,
     <<65471,65473,1>>, <<65480,65481,1>>, <<65488,65489,1>>, <<65496,65497,1>>, <<65501,65503,1>>,
     <<65511,65511,1>>, <<65519,65531,1>>, <<65534,65535,1>>, <<65548,65548,1>>, <<65575,65575,1>>,
     <<65595,65595,1>>, <<65598,65598,1>>, <<65614,65615,1>>, <<65630,65663,1>>, <<65787,65791,1>>,
     <<65795,65798,1>>, <<65844,65846,1>>, <<65935,65935,1>>, <<65949,65951,1>>, <<65953,65999,1>>,
     <<66046,66175,1>>, <<66205,66207,1>>, <<66257,66271,1>>, <<66300,66303,1>>, <<66340,66348,1>>,
     <<66379,66383,1>>, <<66427,66431,1>>, <<66462,66462,1>>, <<66500,66503,1>>, <<66518,66559,1>>,
     <<66718,66719,1>>, <<66730,66735,1>>, <<66772,66775,1>>, <<66812,66815,1>>, <<66856,66863,1>>,
     <<66916,66926,1>>, <<66939,66939,1>>, <<66955,66955,1>>, <<66963,66963,1>>, <<66966,66966,1>>,
     <<66978,66978,1>>, <<66994,66994,1>>, <<67002,67002,1>>, <<67005,67071,1>>, <<67383,67391,1>>,
     <<67414,67423,1>>, <<67432,67455,1>>, <<67462,67462,1>>, <<67505,67505,1>>, <<67515,67583,1>>,
     <<67590,67591,1>>, <<67593,67593,1>>, <<67638,67638,1>>, <<67641,67643,1>>, <<67645,67646,1>>,
     <<67670,67670,1>>, <<67743,67750,1>>, <<67760,67807,1>>, <<67827,67827,1>>, <<67830,67834,1>>,
     <<67868,67870,1>>, <<67898,67902,1>>, <<67904,67967,1>>, <<68024,68027,1>>, <<68048,68049,1>>,
     <<68100,68100,1>>, <<68103,68107,1>>, <<68116,68116,1>>, <<68120,68120,1>>, <<68150,68151,1>>,
     <<68155,68158,1>>, <<68169,68175,1>>, <<68185,68191,1>>, <<68256,68287,1>>, <<68327,68330,1>>,
     <<68343,68351,1>>, <<68406,68408,1>>, <<68438,68439,1>>, <<68467,68471,1>>, <<68498,68504,1>>,
     <<68509,68520,1>>, <<68528,68607,1>>, <<68681,68735,1>>, <<68787,68799,1>>, <<68851,68857,1>>,
     <<68904,68911,1>>, <<68922,69215,1>>, <<69247,69247,1>>, <<69290,69290,1>>, <<69294,69295,1>>,
     <<69298,69375,1>>, <<69416,69423,1>>, <<69466,69487,1>>, <<69514,69551,1>>, <<69580,69599,1>>,
     <<69623,69631,1>>, <<69710,69713,1>>, <<69750,69758,1>>, <<69821,69821,1>>, <<69827,69839,1>>,
     <<69865,69871,1>>, <<69882,69887,1>>, <<69941,69941,1>>, <<69960,69967,1>>, <<70007,70015,1>>,
     <<70112,70112,1>>, <<70133,70143,1>>, <<70162,70162,1>>, <<70207,70271,1>>, <<70279,70281,2>>,
     <<70286,70286,1>>, <<70302,70302,1>>, <<70314,70319,1>>, <<70379,70383,1>>, <<70394,70399,1>>,
     <<70404,70404,1>>, <<70413,70414,1>>, <<70417,70418,1>>, <<70441,70441,1>>, <<70449,70449,1>>,
     <<70452,70452,1>>, <<70458,70458,1>>, <<70469,70470,1>>, <<70473,70474,1>>, <<70478,70479,1>>,
     <<70481,70486,1>>, <<70488,70492,1>>, <<70500,70501,1>>, <<70509,70511,1>>, <<70517,70655,1>>,
     <<70748,70748,1>>, <<70754,70783,1>>, <<70856,70863,1>>, <<70874,71039,1>>, <<71094,71095,1>>,
     <<71134,71167,1>>, <<71237,71247,1>>, <<71258,71263,1>>, <<71277,71295,1>>, <<71354,71359,1>>,
     <<71370,71423,1>>, <<71451,71452,1>>, <<71468,71471,1>>, <<71495,71679,1>>, <<71740,71839,1>>,
     <<71923,71934,1>>, <<71943,71944,1>>, <<71946,71947,1>>, <<71956,71956,1>>, <<71959,71959,1>>,
     <<71990,71990,1>>, <<71993,71994,1>>, <<72007,72015,1>>, <<72026,72095,1>>, <<72104,72105,1>>,
     <<72152,72153,1>>, <<72165,72191,1>>, <<72264,72271,1>>, <<72355,72367,1>>, <<72441,72703,1>>,
     <<72713,72713,1>>, <<72759,72759,1>>, <<72774,72783,1>>, <<72813,72815,1>>, <<72848,72849,1>>,
     <<72872,72872,1>>, <<72887,72959,1>>, <<72967,72967,1>>, <<72970,72970,1>>, <<73015,73017,1>>,
     <<73019,73019,1>>, <<73022,73022,1>>, <<73032,73039,1>>, <<73050,73055,1>>, <<73062,73062,1>>,
     <<73065,73065,1>>, <<73103,73103,1>>, <<73106,73106,1>>, <<73113,73119,1>>, <<73130,73439,1>>,
     <<73465,73647,1>>, <<73649,73663,1>>, <<73714,73726,1>>, <<74650,74751,1>>, <<74863,74863,1>>,
     <<74869,74879,1>>, <<75076,77711,1>>, <<77811,77823,1>>, <<78895,82943,1>>, <<83527,92159,1>>,
     <<92729,92735,1>>, <<92767,92767,1>>, <<92778,92781,1>>, <<92863,92863,1>>, <<92874,92879,1>>,
     <<92910,92911,1>>, <<92918,92927,1>>, <<92998,93007,1>>, <<93018,93018,1>>, <<93026,93026,1>>,
     <<93048,93052,1>>, <<93072,93759,1>>, <<93851,93951,1>>, <<94027,94030,1>>, <<94088,94094,1>>,
     <<94112,94175,1>>, <<94181,94191,1>>, <<94194,94207,1>>, <<100344,100351,1>>, <<101590,101631,1>>,
     <<101641,110575,1>>, <<110580,110580,1>>, <<110588,110588,1>>, <<110591,110591,1>>, <<110883,110927,1>>,
     <<110931,110947,1>>, <<110952,110959,1>>, <<111356,113663,1>>, <<113771,113775,1>>, <<113789,113791,1>>,
     <<113801,113807,1>>, <<113818,113819,1>>, <<113824,118527,1>>, <<118574,118575,1>>, <<118599,118607,1>>,
     <<118724,118783,1>>, <<119030,119039,1>>, <<119079,119080,1>>, <<119155,119162,1>>, <<119275,119295,1>>,
     <<119366,119519,1>>, <<119540,119551,1>>, <<119639,119647,1>>, <<119673,119807,1>>, <<119893,119893,1>>,
     <<119965,119965,1>>, <<119968,119969,1>>, <<119971,119972,1>>, <<119975,119976,1>>, <<119981,119981,1>>,
     <<119994,119996,2>>, <<120004,120004,1>>, <<120070,120070,1>>, <<120075,120076,1>>, <<120085,120085,1>>,
     <<120093,120093,1>>, <<120122,120122,1>>, <<120127,120127,1>>, <<120133,120135,2>>, <<120136,120137,1>>,
     <<120145,120145,1>>, <<120486,120487,1>>, <<120780,120781,1>>, <<121484,121498,1>>, <<121504,121504,1>>,
     <<121520,122623,1>>, <<122655,122879,1>>, <<122887,122887,1>>, <<122905,122906,1>>, <<122914,122914,1>>,
     <<122917,122917,1>>, <<122923,123135,1>>, <<123181,123183,1>>, <<123198,123199,1>>, <<123210,123213,1>>,
     <<123216,123535,1>>, <<123567,123583,1>>, <<123642,123646,1>>, <<123648,124895,1>>, <<124903,124903,1>>,
     <<124908,124908,1>>, <<124911,124911,1>>, <<124927,124927,1>>, <<125125,125126,1>>, <<125143,125183,1>>,
     <<125260,125263,1>>, <<125274,125277,1>>, <<125280,126064,1>>, <<126133,126208,1>>, <<126270,126463,1>>,
     <<126468,126468,1>>, <<126496,126496,1>>, <<126499,126501,2>>, <<126502,126504,2>>, <<126515,126515,1>>,
     <<126520,126524,2>>, <<126525,126529,1>>, <<126531,126534,1>>, <<126536,126540,2>>, <<126544,126544,1>>,
     <<126547,126549,2>>, <<126550,126560,2>>, <<126563,126565,2>>, <<126566,126566,1>>, <<126571,126571,1>>,
     <<126579,126579,1>>, <<126584,126584,1>>, <<126589,126591,2>>, <<126602,126602,1>>, <<126620,126624,1>>,
     <<126628,126628,1>>, <<126634,126634,1>>, <<126652,126703,1>>, <<126706,126975,1>>, <<127020,127023,1>>,
     <<127124,127135,1>>, <<127151,127152,1>>, <<127168,127168,1>>, <<127184,127184,1>>, <<127222,127231,1>>,
     <<127406,127461,1>>, <<127491,127503,1>>, <<127548,127551,1>>, <<127561,127567,1>>, <<127570,127583,1>>,
     <<127590,127743,1>>, <<128728,128732,1>>, <<128749,128751,1>>, <<128765,128767,1>>, <<128884,128895,1>>,
     <<128985,128991,1>>, <<129004,129007,1>>, <<129009,129023,1>>, <<129036,129039,1>>, <<129096,129103,1>>,
     <<129114,129119,1>>, <<129160,129167,1>>, <<129198,129199,1>>, <<129202,129279,1>>, <<129620,129631,1>>,
     <<129646,129647,1>>, <<129653,129655,1>>, <<129661,129663,1>>, <<129671,129679,1>>, <<129709,129711,1>>,
     <<129723,129727,1>>, <<129734,129743,1>>, <<129754,129759,1>>, <<129768,129775,1>>, <<129783,129791,1>>,
     <<129939,129939,1>>, <<129995,130031,1>>, <<130042,131071,1>>, <<173792,173823,1>>, <<177977,177983,1>>,
     <<178206,178207,1>>, <<183970,183983,1>>, <<191457,194559,1>>, <<195102,196607,1>>, <<201547,917759,1>>,
     <<918000,1114111,1>> >>

\* c.isupper() for one character; the letters A..Z are the only ones below
\* U+0080.
IsUpper(c) ==
  IF c < 128 THEN 65 <= c /\ c <= 90 ELSE InRanges(c, UppercaseRanges)

\* The lower-case letter of a character that has a single one, else the
\* character itself.
ToLower(c) ==
  IF c < 128 THEN IF 65 <= c /\ c <= 90 THEN c + 32 ELSE c
  ELSE LET hits == {i \in 1..Len(LowercaseMapping) :
                      /\ LowercaseMapping[i][1] <= c /\ c <= LowercaseMapping[i][2]
                      /\ (c - LowercaseMapping[i][1]) % LowercaseMapping[i][3] = 0}
       IN IF hits = {} THEN c
          ELSE c + LowercaseMapping[CHOOSE i \in hits : TRUE][4]

IsCased(c) == InRanges(c, CasedRanges)
IsCaseIgnorable(c) == InRanges(c, CaseIgnorableRanges)

Sigma == 931          \* U+03A3, capital sigma
FinalSigma == 962     \* U+03C2
SmallSigma == 963     \* U+03C3
DottedI == 304        \* U+0130, capital I with dot above

\* The nearest position at or before j, and at or after j, whose character
\* is not case-ignorable; 0 and Len(s) + 1 if there is none.
RECURSIVE SkipBack(_, _)
SkipBack(s, j) ==
  IF j >= 1 /\ IsCaseIgnorable(s[j]) THEN SkipBack(s, j - 1) ELSE j
RECURSIVE SkipForward(_, _)
SkipForward(s, j) ==
  IF j <= Len(s) /\ IsCaseIgnorable(s[j]) THEN SkipForward(s, j + 1) ELSE j

\* A capital sigma at position i ends a word: a cased character comes
\* before it and none comes after it, case-ignorable characters skipped.
IsFinalSigma(s, i) ==
  LET b == SkipBack(s, i - 1)
      f == SkipForward(s, i + 1)
  IN /\ b >= 1 /\ IsCased(s[b])
     /\ (f > Len(s) \/ ~IsCased(s[f]))

\* The characters that position i of s gives to s.lower().
LowerAt(s, i) ==
  IF s[i] = Sigma
  THEN << IF IsFinalSigma(s, i) THEN FinalSigma ELSE SmallSigma >>
  ELSE IF s[i] = DottedI THEN << 105, 775 >>
  ELSE << ToLower(s[i]) >>

RECURSIVE LowerFrom(_, _)
LowerFrom(s, i) ==
  IF i > Len(s) THEN << >> ELSE LowerAt(s, i) \o LowerFrom(s, i + 1)

\* s.lower()
Lower(s) ==
  IF \A i \in 1..Len(s) : s[i] # Sigma /\ s[i] # DottedI
  THEN [i \in 1..Len(s) |-> ToLower(s[i])]
  ELSE LowerFrom(s, 1)

MatchAt(s, sub, i) ==
  /\ i + Len(sub) - 1 <= Len(s)
  /\ \A j \in 1..Len(sub) : s[i + j - 1] = sub[j]

\* sub in s
Contains(s, sub) == \E i \in 1..(Len(s) - Len(sub) + 1) : MatchAt(s, sub, i)

\* s.count(sub): non-overlapping occurrences, scanning from the left.
RECURSIVE CountFrom(_, _, _)
CountFrom(s, sub, i) ==
  IF i + Len(sub) - 1 > Len(s) THEN 0
  ELSE IF MatchAt(s, sub, i) THEN 1 + CountFrom(s, sub, i + Len(sub))
  ELSE CountFrom(s, sub, i + 1)

Count(s, sub) == CountFrom(s, sub, 1)

\* any(mod in s for mod in mods)
AnyIn(mods, s) == \E i \in 1..Len(mods) : Contains(s, mods[i])

----------------------------------------------------------------------------
(* Static lexicons, character by character                                 *)

\* emotion_keywords['joy']
Keywords_joy ==
  <<
    Str(<<"h","a","p","p","y">>), Str(<<"e","x","c","i","t","e","d">>), Str(<<"t","h","r","i","l","l","e","d">>),
    Str(<<"d","e","l","i","g","h","t","e","d">>), Str(<<"e","l","a","t","e","d">>), Str(<<"j","o","y","f","u","l">>),
    Str(<<"c","h","e","e","r","f","u","l">>), Str(<<"p","l","e","a","s","e","d">>), Str(<<"g","l","a","d">>),
    Str(<<"f","a","n","t","a","s","t","i","c">>), Str(<<"a","m","a","z","i","n","g">>),
    Str(<<"w","o","n","d","e","r","f","u","l">>), Str(<<"g","r","e","a","t">>), Str(<<"a","w","e","s","o","m","e">>),
    Str(<<"e","x","c","e","l","l","e","n","t">>), Str(<<"p","e","r","f","e","c","t">>), Str(<<"l","o","v","e">>),
    Str(<<"c","e","l","e","b","r","a","t","i","n","g">>), Str(<<"c","e","l","e","b","r","a","t","i","o","n">>),
    Str(<<"s","u","c","c","e","s","s">>), Str(<<"a","c","h","i","e","v","e","m","e","n","t">>), Str(<<"w","o","n">>),
    Str(<<"v","i","c","t","o","r","y">>), Str(<<"p","r","o","u","d">>)
  >>

\* emotion_keywords['sadness']
Keywords_sadness ==
  <<
    Str(<<"s","a","d">>), Str(<<"d","e","p","r","e","s","s","e","d">>), Str(<<"d","o","w","n">>), Str(<<"b","l","u","e">>),
    Str(<<"u","n","h","a","p","p","y">>), Str(<<"m","i","s","e","r","a","b","l","e">>),
    Str(<<"h","e","a","r","t","b","r","o","k","e","n">>), Str(<<"c","r","y","i","n","g">>), Str(<<"t","e","a","r","s">>),
    Str(<<"l","o","n","e","l","y">>), Str(<<"e","m","p","t","y">>), Str(<<"d","i","s","a","p","p","o","i","n","t","e","d">>),
    Str(<<"g","r","i","e","f">>), Str(<<"s","o","r","r","o","w">>), Str(<<"h","u","r","t">>), Str(<<"p","a","i","n">>),
    Str(<<"l","o","s","s">>), Str(<<"d","e","v","a","s","t","a","t","e","d">>), Str(<<"h","o","p","e","l","e","s","s">>),
    Str(<<"d","e","s","p","a","i","r">>), Str(<<"r","e","j","e","c","t","e","d">>),
    Str(<<"a","b","a","n","d","o","n","e","d">>), Str(<<"b","e","t","r","a","y","e","d">>), Str(<<"f","a","i","l","e","d">>)
  >>

\* emotion_keywords['anger']
Keywords_anger ==
  <<
    Str(<<"a","n","g","r","y">>), Str(<<"f","u","r","i","o","u","s">>), Str(<<"m","a","d">>), Str(<<"r","a","g","e">>),
    Str(<<"i","r","r","i","t","a","t","e","d">>), Str(<<"a","n","n","o","y","e","d">>),
    Str(<<"f","r","u","s","t","r","a","t","e","d">>), Str(<<"o","u","t","r","a","g","e","d">>), Str(<<"l","i","v","i","d">>),
    Str(<<"e","n","r","a","g","e","d">>), Str(<<"i","n","f","u","r","i","a","t","e","d">>), Str(<<"p","i","s","s","e","d">>),
    Str(<<"h","a","t","e">>), Str(<<"d","i","s","g","u","s","t","e","d">>), Str(<<"f","e","d"," ","u","p">>),
    Str(<<"s","t","u","p","i","d">>), Str(<<"r","i","d","i","c","u","l","o","u","s">>), Str(<<"u","n","f","a","i","r">>),
    Str(<<"b","e","t","r","a","y","e","d">>), Str(<<"c","h","e","a","t","e","d">>), Str(<<"s","c","a","m","m","e","d">>),
    Str(<<"t","e","r","r","i","b","l","e">>), Str(<<"a","w","f","u","l">>)
  >>

\* emotion_keywords['fear']
Keywords_fear ==
  <<
    Str(<<"s","c","a","r","e","d">>), Str(<<"a","f","r","a","i","d">>), Str(<<"f","r","i","g","h","t","e","n","e","d">>),
    Str(<<"t","e","r","r","i","f","i","e","d">>), Str(<<"w","o","r","r","i","e","d">>), Str(<<"a","n","x","i","o","u","s">>),
    Str(<<"n","e","r","v","o","u","s">>), Str(<<"c","o","n","c","e","r","n","e","d">>), Str(<<"p","a","n","i","c">>),
    Str(<<"s","t","r","e","s","s">>), Str(<<"o","v","e","r","w","h","e","l","m","e","d">>),
    Str(<<"h","e","l","p","l","e","s","s">>), Str(<<"v","u","l","n","e","r","a","b","l","e">>),
    Str(<<"i","n","s","e","c","u","r","e">>), Str(<<"u","n","c","e","r","t","a","i","n">>), Str(<<"d","o","u","b","t">>),
    Str(<<"a","p","p","r","e","h","e","n","s","i","v","e">>), Str(<<"t","e","n","s","e">>), Str(<<"u","n","e","a","s","y">>),
    Str(<<"p","a","r","a","n","o","i","d">>), Str(<<"t","h","r","e","a","t","e","n","e","d">>)
  >>

\* emotion_keywords['surprise']
Keywords_surprise ==
  <<
    Str(<<"s","u","r","p","r","i","s","e","d">>), Str(<<"s","h","o","c","k","e","d">>), Str(<<"a","m","a","z","e","d">>),
    Str(<<"a","s","t","o","n","i","s","h","e","d">>), Str(<<"s","t","u","n","n","e","d">>),
    Str(<<"u","n","e","x","p","e","c","t","e","d">>), Str(<<"w","o","w">>),
    Str(<<"u","n","b","e","l","i","e","v","a","b","l","e">>), Str(<<"i","n","c","r","e","d","i","b","l","e">>),
    Str(<<"r","e","m","a","r","k","a","b","l","e">>), Str(<<"e","x","t","r","a","o","r","d","i","n","a","r","y">>),
    Str(<<"s","u","d","d","e","n">>), Str(<<"a","b","r","u","p","t">>),
    Str(<<"o","u","t"," ","o","f"," ","n","o","w","h","e","r","e">>), Str(<<"b","l","i","n","d","s","i","d","e","d">>)
  >>

\* emotion_keywords['disgust']
Keywords_disgust ==
  <<
    Str(<<"d","i","s","g","u","s","t","i","n","g">>), Str(<<"g","r","o","s","s">>),
    Str(<<"r","e","v","o","l","t","i","n","g">>), Str(<<"r","e","p","u","l","s","i","v","e">>),
    Str(<<"s","i","c","k","e","n","i","n","g">>), Str(<<"n","a","u","s","e","a","t","i","n","g">>),
    Str(<<"a","p","p","a","l","l","i","n","g">>), Str(<<"h","o","r","r","i","b","l","e">>),
    Str(<<"r","e","p","u","g","n","a","n","t">>), Str(<<"v","i","l","e">>), Str(<<"o","f","f","e","n","s","i","v","e">>),
    Str(<<"d","i","s","t","a","s","t","e","f","u","l">>), Str(<<"u","n","p","l","e","a","s","a","n","t">>),
    Str(<<"y","u","c","k","y">>)
  >>

\* SimpleEmotionDetector.intensity_modifiers['high']
SimpleModifiers_high ==
  <<
    Str(<<"v","e","r","y">>), Str(<<"e","x","t","r","e","m","e","l","y">>), Str(<<"i","n","c","r","e","d","i","b","l","y">>),
    Str(<<"a","b","s","o","l","u","t","e","l","y">>), Str(<<"t","o","t","a","l","l","y">>),
    Str(<<"c","o","m","p","l","e","t","e","l","y">>), Str(<<"u","t","t","e","r","l","y">>),
    Str(<<"r","e","a","l","l","y"," ","r","e","a","l","l","y">>), Str(<<"s","o">>), Str(<<"!","!","!">>),
    Str(<<"t","r","e","m","e","n","d","o","u","s","l","y">>), Str(<<"i","m","m","e","n","s","e","l","y">>)
  >>

\* SimpleEmotionDetector.intensity_modifiers['medium']
SimpleModifiers_medium ==
  <<
    Str(<<"q","u","i","t","e">>), Str(<<"p","r","e","t","t","y">>), Str(<<"r","a","t","h","e","r">>),
    Str(<<"f","a","i","r","l","y">>), Str(<<"s","o","m","e","w","h","a","t">>), Str(<<"r","e","a","l","l","y">>)
  >>

\* SimpleEmotionDetector.intensity_modifiers['low']
SimpleModifiers_low ==
  <<
    Str(<<"a"," ","b","i","t">>), Str(<<"s","l","i","g","h","t","l","y">>), Str(<<"l","i","t","t","l","e">>),
    Str(<<"k","i","n","d"," ","o","f">>), Str(<<"s","o","r","t"," ","o","f">>), Str(<<"m","a","y","b","e">>)
  >>

\* EmotionDetector.intensity_modifiers['high']
Modifiers_high ==
  <<
    Str(<<"v","e","r","y">>), Str(<<"e","x","t","r","e","m","e","l","y">>), Str(<<"i","n","c","r","e","d","i","b","l","y">>),
    Str(<<"a","b","s","o","l","u","t","e","l","y">>), Str(<<"t","o","t","a","l","l","y">>),
    Str(<<"c","o","m","p","l","e","t","e","l","y">>), Str(<<"u","t","t","e","r","l","y">>),
    Str(<<"r","e","a","l","l","y"," ","r","e","a","l","l","y">>), Str(<<"s","o">>), Str(<<"!","!","!">>),
    Str(<<"t","r","e","m","e","n","d","o","u","s","l","y">>), Str(<<"i","m","m","e","n","s","e","l","y">>),
    Str(<<"s","u","p","e","r">>), Str(<<"i","n","s","a","n","e","l","y">>),
    Str(<<"r","i","d","i","c","u","l","o","u","s","l","y">>), Str(<<"h","u","g","e","l","y">>),
    Str(<<"w","i","l","d","l","y">>), Str(<<"o","v","e","r","w","h","e","l","m","i","n","g","l","y">>),
    Str(<<"s","o","o","o","o">>), Str(<<"n","o","o","o"," ","w","a","y">>), Str(<<"y","e","s","s","s">>), Str(<<"o","m","g">>),
    Str(<<"o","h"," ","m","y"," ","g","o","d">>), Str(<<"w","o","w">>), Str(<<"u","g","h">>), Str(<<"a","r","g","h">>),
    Str(<<"n","o","t"," ","a","t"," ","a","l","l">>), Str(<<"n","e","v","e","r">>), Str(<<"n","o"," ","w","a","y">>)
  >>

\* EmotionDetector.intensity_modifiers['medium']
Modifiers_medium ==
  <<
    Str(<<"q","u","i","t","e">>), Str(<<"p","r","e","t","t","y">>), Str(<<"r","a","t","h","e","r">>),
    Str(<<"f","a","i","r","l","y">>), Str(<<"s","o","m","e","w","h","a","t">>), Str(<<"r","e","a","l","l","y">>),
    Str(<<"r","e","l","a","t","i","v","e","l","y">>), Str(<<"k","i","n","d"," ","o","f">>),
    Str(<<"s","o","r","t"," ","o","f">>), Str(<<"m","o","r","e"," ","o","r"," ","l","e","s","s">>),
    Str(<<"m","o","d","e","r","a","t","e","l","y">>), Str(<<"r","e","a","s","o","n","a","b","l","y">>),
    Str(<<"k","i","n","d","a">>), Str(<<"p","r","e","t","t","y"," ","m","u","c","h">>)
  >>

\* EmotionDetector.intensity_modifiers['low']
Modifiers_low ==
  <<
    Str(<<"a"," ","b","i","t">>), Str(<<"s","l","i","g","h","t","l","y">>), Str(<<"l","i","t","t","l","e">>),
    Str(<<"m","a","y","b","e">>), Str(<<"p","e","r","h","a","p","s">>), Str(<<"n","o","t"," ","r","e","a","l","l","y">>),
    Str(<<"n","o","t"," ","s","u","r","e">>), Str(<<"s","o","r","t","a">>), Str(<<"I"," ","g","u","e","s","s">>),
    Str(<<"p","o","s","s","i","b","l","y">>), Str(<<"k","i","n","d","a"," ","s","m","a","l","l">>),
    Str(<<"b","a","r","e","l","y">>), Str(<<"h","a","r","d","l","y">>), Str(<<"a","l","m","o","s","t">>),
    Str(<<"j","u","s","t"," ","a"," ","t","o","u","c","h">>), Str(<<"h","a","r","d","l","y"," ","e","v","e","r">>),
    Str(<<"s","c","a","r","c","e","l","y">>)
  >>

emotion_keywords ==
  [ joy |-> Keywords_joy, sadness |-> Keywords_sadness, anger |-> Keywords_anger,
    fear |-> Keywords_fear, surprise |-> Keywords_surprise, disgust |-> Keywords_disgust ]

\* Iteration order of the emotion_keywords dict.
KeywordOrder == << "joy", "sadness", "anger", "fear", "surprise", "disgust" >>

----------------------------------------------------------------------------
(* Intensity Classifier: EmotionDetector._calculate_intensity              *)

Exclam == Ord("!")

\* text.count('!')
ExclamCount(chars) == Cardinality({i \in 1..Len(chars) : chars[i] = Exclam})

\* Number of characters c of the text with c.isupper().
CapsCount(chars) == Cardinality({i \in 1..Len(chars) : IsUpper(chars[i])})

\* caps = sum(1 for c in text if c.isupper()) / max(1, len(text)) if text
\* else 0
Caps(chars) ==
  IF Len(chars) = 0 THEN Zero ELSE Frac(CapsCount(chars), Len(chars))

CapsHigh == Frac(3, 10)
CapsMedium == Frac(1, 10)

\* caps > 0.3, caps >= 0.3 and caps >= 0.1
CapsAbove30(chars) == FLess(CapsHigh, Caps(chars))
CapsAtLeast30(chars) == FLeq(CapsHigh, Caps(chars))
CapsAtLeast10(chars) == FLeq(CapsMedium, Caps(chars))

\* max(emotion_scores.values()) if emotion_scores else 0
MaxScore(scores) ==
  IF DOMAIN scores = {} THEN Zero
  ELSE LET vals == {scores[k] : k \in DOMAIN scores}
       IN CHOOSE m \in vals : \A v \in vals : FLeq(v, m)

\* max_score >= 0.75 and max_score >= 0.45
HighTier == Frac(75, 100)
MediumTier == Frac(45, 100)

\* The classifier with the medium signals tested before the high ones.
CalculateIntensity_MediumFirst(scores, text) ==
  IF text.kind # "str" /\ Truthy(text)
  THEN "low"
  ELSE
    LET chars == text.chars
        max_score == MaxScore(scores)
        text_lower == Lower(chars)
        exclam == ExclamCount(chars)
        high_match == AnyIn(Modifiers_high, text_lower)
        med_match == AnyIn(Modifiers_medium, text_lower)
        low_match == AnyIn(Modifiers_low, text_lower)
        medium_signal == exclam >= 1 \/ CapsAtLeast10(chars) \/ med_match
    IN IF FLeq(HighTier, max_score)
       THEN IF medium_signal THEN "medium"
            ELSE IF exclam > 2 \/ CapsAbove30(chars) \/ high_match THEN "high"
            ELSE IF low_match THEN "low"
            ELSE "high"
       ELSE IF FLeq(MediumTier, max_score)
       THEN IF medium_signal THEN "medium"
            ELSE IF exclam >= 3 \/ CapsAtLeast30(chars) \/ high_match THEN "high"
            ELSE IF low_match THEN "low"
            ELSE "medium"
       ELSE IF medium_signal THEN "medium"
            ELSE IF exclam >= 3 \/ CapsAtLeast30(chars) \/ high_match THEN "high"
            ELSE IF low_match THEN "low"
            ELSE "low"

\* The three if-blocks of _calculate_intensity, on the values its first
\* lines have computed.
IntensityLevel(max_score, exclam, caps, high_match, med_match, low_match) ==
  LET medium_signal == exclam >= 1 \/ FLeq(CapsMedium, caps) \/ med_match
  IN IF FLeq(HighTier, max_score)
     THEN IF exclam > 2 \/ FLess(CapsHigh, caps) \/ high_match THEN "high"
          ELSE IF medium_signal THEN "medium"
          ELSE IF low_match THEN "low"
          ELSE "high"
     ELSE IF FLeq(MediumTier, max_score)
     THEN IF exclam >= 3 \/ FLeq(CapsHigh, caps) \/ high_match THEN "high"
          ELSE IF medium_signal THEN "medium"
          ELSE IF low_match THEN "low"
          ELSE "medium"
     ELSE IF exclam >= 3 \/ FLeq(CapsHigh, caps) \/ high_match THEN "high"
          ELSE IF medium_signal THEN "medium"
          ELSE IF low_match THEN "low"
          ELSE "low"

CalculateIntensity(scores, text) ==
  IF text.kind # "str" /\ Truthy(text)
  THEN "low"                       \* text.count raises, except: return 'low'
  ELSE
    Apply(LAMBDA max_score :
      Apply(LAMBDA text_lower :
        Apply(LAMBDA caps :
                IntensityLevel(max_score, ExclamCount(text.chars), caps,
                               AnyIn(Modifiers_high, text_lower),
                               AnyIn(Modifiers_medium, text_lower),
                               AnyIn(Modifiers_low, text_lower)),
              Caps(text.chars)),
        Lower(text.chars)),
      MaxScore(scores))

----------------------------------------------------------------------------
(* Degraded record: _create_neutral_result of both detectors               *)

NeutralDistribution == [k \in {"neutral"} |-> One]

\* EmotionDetector._create_neutral_result.  The processed_text entry of the
\* records, read by no operation modelled here, is left out of all records.
CreateNeutralResult ==
  [ primary_emotion |-> "neutral", confidence |-> Half,
    all_emotions |-> NeutralDistribution, cultural_context |-> Context_default,
    original_text |-> << >>, intensity |-> "low" ]

\* SimpleEmotionDetector._create_neutral_result
SimpleCreateNeutralResult ==
  [ primary_emotion |-> "neutral", confidence |-> Half,
    all_emotions |-> NeutralDistribution, cultural_context |-> Context_default,
    original_text |-> << >>, intensity |-> "low", keyword_matches |-> 0 ]

----------------------------------------------------------------------------
(* Keyword fallback: SimpleEmotionDetector                                 *)

\* SimpleEmotionDetector._calculate_intensity, on a str.
SimpleCalculateIntensity(chars) ==
  LET text_lower == Lower(chars)
      exclam == ExclamCount(chars)
  IN IF exclam > 2 \/ CapsAbove30(chars) \/ AnyIn(SimpleModifiers_high, text_lower)
       THEN "high"
     ELSE IF exclam >= 1 \/ CapsAtLeast10(chars) \/ AnyIn(SimpleModifiers_medium, text_lower)
       THEN "medium"
     ELSE IF AnyIn(SimpleModifiers_low, text_lower) THEN "low"
     ELSE "high"

ConfidenceCap == Frac(95, 100)
EasternFactor == Frac(9, 10)
WesternFactor == Frac(11, 10)

\* The patterns of a direct expression.
DirectPatterns ==
  << Str(<<"i"," ","f","e","e","l">>), Str(<<"i"," ","a","m">>) >>

\* any(pattern in text.lower() for pattern in ['i feel', 'i am'])
IsDirectExpression(chars) ==
  \E k \in 1..Len(DirectPatterns) : Contains(Lower(chars), DirectPatterns[k])

\* The adjustment without its final cap.
SimpleApplyCulturalContext_NoCap(confidence, emotion, chars, context) ==
  IF context = Context_eastern
  THEN IF emotion \in {"anger", "joy"} THEN FMul(confidence, EasternFactor)
       ELSE confidence
  ELSE IF context = Context_western
  THEN IF IsDirectExpression(chars)
       THEN FMul(confidence, WesternFactor)
       ELSE confidence
  ELSE confidence

\* SimpleEmotionDetector._apply_cultural_context
SimpleApplyCulturalContext(confidence, emotion, chars, context) ==
  LET adjusted ==
        IF context = Context_eastern
        THEN IF emotion \in {"anger", "joy"} THEN FMul(confidence, EasternFactor)
             ELSE confidence
        ELSE IF context = Context_western
        THEN IF IsDirectExpression(chars)
             THEN FMul(confidence, WesternFactor)
             ELSE confidence
        ELSE confidence
  IN FMin(ConfidenceCap, adjusted)

\* Sum over one emotion's keyword list of text_lower.count(keyword).
RECURSIVE KeywordScoreFrom(_, _, _)
KeywordScoreFrom(text_lower, keywords, i) ==
  IF i > Len(keywords) THEN 0
  ELSE Count(text_lower, keywords[i]) + KeywordScoreFrom(text_lower, keywords, i + 1)

KeywordScores(chars) ==
  Apply(LAMBDA text_lower :
          [e \in DOMAIN emotion_keywords |->
             KeywordScoreFrom(text_lower, emotion_keywords[e], 1)],
        Lower(chars))

RECURSIVE SumCountsFrom(_, _, _)
SumCountsFrom(counts, order, i) ==
  IF i > Len(order) THEN 0 ELSE counts[order[i]] + SumCountsFrom(counts, order, i + 1)

\* max(keys, key=...): the first key, in dict order, holding the largest value.
FirstMaxCount(counts, order) ==
  LET i == CHOOSE a \in 1..Len(order) :
             /\ \A b \in 1..Len(order) : counts[order[b]] <= counts[order[a]]
             /\ \A b \in 1..(a - 1) : counts[order[b]] < counts[order[a]]
  IN order[i]

\* confidence = min(0.95, primary_matches / max(1, total_matches) * 0.8 + 0.2)
MatchWeight == Frac(8, 10)
MatchFloor == Frac(2, 10)

\* The record built from the keyword counts of a text that has matches.
SimpleRecord(chars, context, scores, total_matches) ==
  LET primary_emotion == FirstMaxCount(scores, KeywordOrder)
      primary_matches == scores[primary_emotion]
      confidence ==
        FMin(ConfidenceCap,
             FAdd(FMul(Frac(primary_matches, total_matches), MatchWeight),
                  MatchFloor))
  IN [ primary_emotion |-> primary_emotion,
       confidence |-> SimpleApplyCulturalContext(confidence, primary_emotion,
                                                 chars, context),
       all_emotions |-> [k \in DOMAIN scores |->
                           Frac(scores[k], total_matches)],
       cultural_context |-> context,
       original_text |-> chars,
       intensity |-> SimpleCalculateIntensity(chars),
       keyword_matches |-> primary_matches ]

\* SimpleEmotionDetector.detect_emotion; text is any Python value, context a
\* string.
SimpleDetectEmotion(text, context) ==
  IF ~Truthy(text) \/ text.kind # "str" THEN SimpleCreateNeutralResult
  ELSE Apply(LAMBDA counts :
               Apply(LAMBDA total_matches :
                       IF total_matches = 0 THEN SimpleCreateNeutralResult
                       ELSE SimpleRecord(text.chars, context, counts,
                                         total_matches),
                     SumCountsFrom(counts, KeywordOrder, 1)),
             KeywordScores(text.chars))

----------------------------------------------------------------------------
(* Record builder: EmotionDetector.detect_emotion                          *)

\* max over the keys that returns the last label, in dict order, holding
\* the largest score.
FirstMaxScore_Last(scores, order) ==
  Apply(LAMBDA m :
          order[CHOOSE a \in 1..Len(order) :
                  /\ scores[order[a]] = m
                  /\ \A b \in (a + 1)..Len(order) : scores[order[b]] # m],
        MaxScore(scores))

\* max(adjusted_scores.keys(), key=...): the first label, in dict order,
\* holding the largest score.
FirstMaxScore(scores, order) ==
  Apply(LAMBDA m :
          order[CHOOSE a \in 1..Len(order) :
                  /\ scores[order[a]] = m
                  /\ \A b \in 1..(a - 1) : scores[order[b]] # m],
        MaxScore(scores))

\* The record of the model path, built from the adjusted scores.
ModelRecord(adjusted_scores, text, context) ==
  Apply(LAMBDA primary_emotion :
          [ primary_emotion |-> primary_emotion,
            confidence |-> adjusted_scores[primary_emotion],
            all_emotions |-> adjusted_scores,
            cultural_context |-> context,
            original_text |-> text.chars,
            intensity |-> CalculateIntensity(adjusted_scores, text) ],
        FirstMaxScore(adjusted_scores, EmotionOrder))

\* What the external classifier does on one call: it raises, or results[0]
\* is the list of label/score items.
Raises == [raises |-> TRUE, results |-> << >>]
Returns(results) == [raises |-> FALSE, results |-> results]
\* Recorded as the outcome of a call that never reached the classifier.
NotCalled == [raises |-> FALSE, results |-> << >>]

\* The guards ahead of the classifier call: a non-empty str and a pipeline.
ReachesClassifier(pipeline, text) ==
  Truthy(text) /\ text.kind = "str" /\ pipeline

\* The two places that fall back: the keyword detector if there is one,
\* else the neutral result.  self.emotion_scores is left as it was.
Fallback(scores, simple, text, context, called) ==
  [record |-> IF simple THEN SimpleDetectEmotion(text, context)
              ELSE CreateNeutralResult,
   scores |-> scores, called |-> called]

\* The try block when the classifier returns: normalize, adjust, build.
ModelPath(scores, text, context, results) ==
  Apply(LAMBDA emotion_scores_ :
          Apply(LAMBDA adjusted_scores :
                  [record |-> ModelRecord(adjusted_scores, text, context),
                   scores |-> emotion_scores_, called |-> TRUE],
                ApplyCulturalContext(emotion_scores_, StrContext(context))),
        ProcessModelOutput(scores, results))

\* detect_emotion whose first guard tests `not text` only.
DetectEmotion_NoTypeCheck(scores, pipeline, simple, text, context, outcome) ==
  IF ~Truthy(text)
  THEN [record |-> CreateNeutralResult, scores |-> scores, called |-> FALSE]
  ELSE IF ~pipeline THEN Fallback(scores, simple, text, context, FALSE)
  ELSE IF outcome.raises THEN Fallback(scores, simple, text, context, TRUE)
  ELSE ModelPath(scores, text, context, outcome.results)

\* One call of detect_emotion.  scores is self.emotion_scores before the
\* call, pipeline whether self.emotion_pipeline is loaded, simple whether
\* self.simple_detector exists, outcome what the classifier does if it is
\* called.  Gives the returned record, self.emotion_scores after the call
\* and whether the classifier was called.
DetectEmotion(scores, pipeline, simple, text, context, outcome) ==
  IF ~Truthy(text) \/ text.kind # "str"
  THEN [record |-> CreateNeutralResult, scores |-> scores, called |-> FALSE]
  ELSE IF ~pipeline THEN Fallback(scores, simple, text, context, FALSE)
  ELSE IF outcome.raises THEN Fallback(scores, simple, text, context, TRUE)
  ELSE ModelPath(scores, text, context, outcome.results)

\* The list comprehension of batch_detect_emotions from its i-th text on:
\* each text goes through detect_emotion in turn, on the scores the text
\* before it left in self.emotion_scores.  acc holds the records so far,
\* the scores, and whether the classifier was called for any text.
RECURSIVE BatchFrom(_, _, _, _, _, _, _)
BatchFrom(acc, pipeline, simple, texts, context, outcomes, i) ==
  IF i > Len(texts) THEN acc
  ELSE Apply(LAMBDA d : BatchFrom([records |-> Append(acc.records, d.record),
                                   scores |-> d.scores,
                                   called |-> acc.called \/ d.called],
                                  pipeline, simple, texts, context, outcomes,
                                  i + 1),
             DetectEmotion(acc.scores, pipeline, simple, texts[i], context,
                           outcomes[i]))

\* batch_detect_emotions(texts, cultural_context): the list of the records
\* and the scores left on the detector; outcomes[i] is what the classifier
\* does on the call made for texts[i].
BatchDetectEmotions(scores, pipeline, simple, texts, context, outcomes) ==
  BatchFrom([records |-> << >>, scores |-> scores, called |-> FALSE],
            pipeline, simple, texts, context, outcomes, 1)

----------------------------------------------------------------------------
(* Trend Analyzer: EmotionDetector.get_emotion_trends, _calculate_trend    *)

\* d.get(key, default) on a record that may lack the key.
Get(d, key, default) == IF key \in DOMAIN d THEN d[key] ELSE default

\* seq[-n:]
LastN(seq, n) ==
  IF Len(seq) <= n THEN seq ELSE SubSeq(seq, Len(seq) - n + 1, Len(seq))

\* Number of entries of the window that belong to the set.
CountIn(emotions, set) == Cardinality({i \in DOMAIN emotions : emotions[i] \in set})

\* The trend with the all-identical test made after the valence counts.
CalculateTrend_StableLast(emotions) ==
  IF Len(emotions) = 0 THEN "insufficient_data"
  ELSE
    LET pos_count == CountIn(emotions, positive_emotions)
        neg_count == CountIn(emotions, negative_emotions)
    IN IF pos_count > neg_count THEN "improving"
       ELSE IF neg_count > pos_count THEN "declining"
       ELSE IF Cardinality({emotions[i] : i \in DOMAIN emotions}) = 1 THEN "stable"
       ELSE "mixed"

\* _calculate_trend on a list of emotion names.
CalculateTrend(emotions) ==
  IF Len(emotions) = 0 THEN "insufficient_data"
  ELSE
    LET pos_count == CountIn(emotions, positive_emotions)
        neg_count == CountIn(emotions, negative_emotions)
    IN IF Cardinality({emotions[i] : i \in DOMAIN emotions}) = 1 THEN "stable"
       ELSE IF pos_count > neg_count THEN "improving"
       ELSE IF neg_count > pos_count THEN "declining"
       ELSE "mixed"

\* result.get('primary_emotion', 'neutral') for every record, in order.
PrimaryEmotions(emotion_results) ==
  [i \in DOMAIN emotion_results |->
     Get(emotion_results[i], "primary_emotion", "neutral")]

\* result.get('intensity', 'low') for every record, in order.
Intensities(emotion_results) ==
  [i \in DOMAIN emotion_results |-> Get(emotion_results[i], "intensity", "low")]

\* The keys of emotion_counts in insertion order: each emotion at its first
\* occurrence.
CountKeys(emotions) ==
  SelectSeq([i \in DOMAIN emotions |->
               [e |-> emotions[i],
                first |-> \A j \in 1..(i - 1) : emotions[j] # emotions[i]]],
            LAMBDA x : x.first)

\* emotion_counts: keys in insertion order, and the count of each key.
EmotionCounts(emotions) ==
  LET entries == CountKeys(emotions)
  IN [keys |-> [i \in DOMAIN entries |-> entries[i].e],
      count |-> [e \in {emotions[i] : i \in DOMAIN emotions} |->
                   Cardinality({i \in DOMAIN emotions : emotions[i] = e})]]

\* max over the keys with the last of the largest counts taken.
DominantEmotion_LastMax(emotion_counts) ==
  LET keys == emotion_counts.keys
      i == CHOOSE a \in DOMAIN keys :
             /\ \A b \in DOMAIN keys :
                   emotion_counts.count[keys[b]] <= emotion_counts.count[keys[a]]
             /\ \A b \in (a + 1)..Len(keys) :
                   emotion_counts.count[keys[b]] < emotion_counts.count[keys[a]]
  IN keys[i]

\* max(emotion_counts.keys(), key=...): the first key, in insertion order,
\* holding the largest count.
DominantEmotion(emotion_counts) ==
  LET keys == emotion_counts.keys
      i == CHOOSE a \in DOMAIN keys :
             /\ \A b \in DOMAIN keys :
                   emotion_counts.count[keys[b]] <= emotion_counts.count[keys[a]]
             /\ \A b \in 1..(a - 1) :
                   emotion_counts.count[keys[b]] < emotion_counts.count[keys[a]]
  IN keys[i]

intensity_values == [low |-> 1, medium |-> 2, high |-> 3]

\* intensity_values.get(i, 1)
IntensityValue(i) == Get(intensity_values, i, 1)

RECURSIVE SumValuesFrom(_, _)
SumValuesFrom(intensities, i) ==
  IF i > Len(intensities) THEN 0
  ELSE IntensityValue(intensities[i]) + SumValuesFrom(intensities, i + 1)

\* The mean taken over the intensities of the trend buffer only.
AverageIntensity_Buffered(intensities) ==
  Frac(SumValuesFrom(LastN(intensities, 10), 1), Len(LastN(intensities, 10)))

\* np.mean([intensity_values.get(i, 1) for i in intensities])
AverageIntensity(intensities) ==
  Frac(SumValuesFrom(intensities, 1), Len(intensities))

\* deque(maxlen=10)
RecentMaxLen == 10

\* recent_emotions.append(x) on a bounded deque: a full deque drops its
\* oldest entry.
DequeAppend(recent_emotions, x) ==
  IF Len(recent_emotions) = RecentMaxLen
  THEN Append(Tail(recent_emotions), x)
  ELSE Append(recent_emotions, x)

RECURSIVE PushFrom(_, _, _)
PushFrom(recent_emotions, emotions, i) ==
  IF i > Len(emotions) THEN recent_emotions
  ELSE PushFrom(DequeAppend(recent_emotions, emotions[i]), emotions, i + 1)

\* A buffer that, once full, takes no further entry.
RecentEmotions_KeepOldest(emotion_results) ==
  SubSeq(PrimaryEmotions(emotion_results), 1,
         IF Len(emotion_results) < RecentMaxLen
         THEN Len(emotion_results) ELSE RecentMaxLen)

\* recent_emotions after the loop of lines 408-409.
RecentEmotions(emotion_results) ==
  PushFrom(<< >>, PrimaryEmotions(emotion_results), 1)

\* Overall taken from the short window alone.
OverallTrend_AlwaysShort(short_term_trend, medium_term_trend) == short_term_trend

\* Lines 422-425.
OverallTrend(short_term_trend, medium_term_trend) ==
  IF short_term_trend = medium_term_trend THEN short_term_trend ELSE "mixed"

\* The f-string of line 427, piece by piece.
TrendString(short_term_trend, medium_term_trend, overall) ==
  << "short-term: ", short_term_trend, ", mid-term: ", medium_term_trend,
     " and overall: ", overall >>

\* The report for no data, lines 382-387.
EmptyTrendReport ==
  [dominant_emotion |-> "neutral", trend |-> "stable",
   analysis |-> "No data available"]

\* get_emotion_trends on a list of records.
GetEmotionTrends(emotion_results) ==
  IF Len(emotion_results) = 0 THEN EmptyTrendReport
  ELSE
    LET emotion_counts == EmotionCounts(PrimaryEmotions(emotion_results))
        dominant_emotion == DominantEmotion(emotion_counts)
        avg_intensity == AverageIntensity(Intensities(emotion_results))
        recent_emotions == RecentEmotions(emotion_results)
        short_term_trend == CalculateTrend(LastN(recent_emotions, 3))
        medium_term_trend == CalculateTrend(LastN(recent_emotions, 7))
        overall == OverallTrend(short_term_trend, medium_term_trend)
        trend == TrendString(short_term_trend, medium_term_trend, overall)
    IN [dominant_emotion |-> dominant_emotion,
        emotion_distribution |-> emotion_counts,
        average_intensity |-> avg_intensity,
        trend |-> trend,
        total_messages |-> Len(emotion_results),
        analysis |-> [upper |-> dominant_emotion, trend |-> trend]]

----------------------------------------------------------------------------
(* Response Generator: the parts of ResponseGenerator that decide whether  *)
(* a response is produced and what is kept of it                           *)

\* _classify_response_type
response_types ==
  [ admiration |-> "affirming", amusement |-> "lighthearted",
    anger |-> "validating", annoyance |-> "validating",
    approval |-> "affirming", caring |-> "appreciative",
    confusion |-> "clarifying", curiosity |-> "exploratory",
    desire |-> "encouraging", disappointment |-> "comforting",
    disapproval |-> "understanding", disgust |-> "understanding",
    embarrassment |-> "normalizing", excitement |-> "celebratory",
    fear |-> "reassuring", gratitude |-> "appreciative",
    grief |-> "compassionate", joy |-> "celebratory", love |-> "affirming",
    nervousness |-> "reassuring", optimism |-> "encouraging",
    pride |-> "congratulatory", realization |-> "exploratory",
    relief |-> "affirming", remorse |-> "supportive",
    sadness |-> "supportive", surprise |-> "curious", neutral |-> "engaging" ]

ClassifyResponseType(emotion) == Get(response_types, emotion, "supportive")

\* _generate_follow_up_suggestions: the emotion whose list of suggestions is
\* returned.
SuggestionEmotions == {"joy", "sadness", "anger", "fear", "surprise", "neutral"}
GenerateFollowUpSuggestions(emotion) ==
  IF emotion \in SuggestionEmotions THEN emotion ELSE "neutral"

continuity_prefixes ==
  [ sadness |->
      Str(<<"I"," ","n","o","t","i","c","e"," ","y","o","u","'","r","e"," ",
            "s","t","i","l","l"," ","f","e","e","l","i","n","g"," ","d","o",
            "w","n","."," ">>),
    anger |->
      Str(<<"I"," ","c","a","n"," ","s","e","e"," ","t","h","i","s"," ","s",
            "i","t","u","a","t","i","o","n"," ","i","s"," ","s","t","i","l",
            "l"," ","b","o","t","h","e","r","i","n","g"," ","y","o","u",".",
            " ">>),
    fear |->
      Str(<<"I"," ","u","n","d","e","r","s","t","a","n","d"," ","t","h","i",
            "s"," ","w","o","r","r","y"," ","i","s"," ","p","e","r","s","i",
            "s","t","i","n","g","."," ">>),
    joy |->
      Str(<<"Y","o","u","r"," ","h","a","p","p","i","n","e","s","s"," ","c",
            "o","n","t","i","n","u","e","s"," ","t","o"," ","s","h","i","n",
            "e"," ","t","h","r","o","u","g","h","!"," ">>) ]

\* What the language model may do when _construct_response calls it: raise
\* an exception e with str(e) = message, return a message whose content is a
\* str, or return one whose content is None. The content of a reply is a
\* Python value.
LLMRaises(message) ==
  [raises |-> TRUE, none |-> FALSE, content |-> PyNone, message |-> message]
LLMReturns(content) ==
  [raises |-> FALSE, none |-> FALSE, content |-> PyStr(content),
   message |-> << >>]
LLMReturnsNone ==
  [raises |-> FALSE, none |-> TRUE, content |-> PyNone, message |-> << >>]
LLMNotCalled ==
  [raises |-> FALSE, none |-> FALSE, content |-> PyNone, message |-> << >>]

HexDigits ==
  Str(<<"0","1","2","3","4","5","6","7","8","9","a","b","c","d","e","f">>)

\* n in hexadecimal, width digits.
RECURSIVE Hex(_, _)
Hex(n, width) ==
  IF width = 0 THEN << >>
  ELSE Hex(n \div 16, width - 1) \o << HexDigits[(n % 16) + 1] >>

Backslash == 92
SingleQuote == 39
DoubleQuote == 34

\* What repr() writes for one character of a str quoted with `quote`.
ReprChar(c, quote) ==
  IF c = quote \/ c = Backslash THEN << Backslash, c >>
  ELSE IF c = 9 THEN << Backslash, Ord("t") >>
  ELSE IF c = 10 THEN << Backslash, Ord("n") >>
  ELSE IF c = 13 THEN << Backslash, Ord("r") >>
  ELSE IF c < 32 \/ c = 127 THEN << Backslash, Ord("x") >> \o Hex(c, 2)
  ELSE IF c < 127 THEN << c >>
  ELSE IF ~InRanges(c, NonPrintableRanges) THEN << c >>
  ELSE IF c <= 255 THEN << Backslash, Ord("x") >> \o Hex(c, 2)
  ELSE IF c <= 65535 THEN << Backslash, Ord("u") >> \o Hex(c, 4)
  ELSE << Backslash, Ord("U") >> \o Hex(c, 8)

RECURSIVE ReprFrom(_, _, _)
ReprFrom(s, i, quote) ==
  IF i > Len(s) THEN << >>
  ELSE ReprChar(s[i], quote) \o ReprFrom(s, i + 1, quote)

\* repr(s) of a str: in single quotes, unless it holds one and no double
\* quote.
Repr(s) ==
  LET has(c) == \E i \in 1..Len(s) : s[i] = c
      quote == IF has(SingleQuote) /\ ~has(DoubleQuote)
               THEN DoubleQuote ELSE SingleQuote
  IN << quote >> \o ReprFrom(s, 1, quote) \o << quote >>

\* str(KeyError(key)): the repr of the key.
KeyErrorText(key) == Repr(key)

\* str(e) of the TypeError of `str + None`.
ConcatNoneText ==
  Str(<<"c","a","n"," ","o","n","l","y"," ","c","o","n","c","a","t","e","n",
        "a","t","e"," ","s","t","r"," ","(","n","o","t"," ","\"","N","o",
        "n","e","T","y","p","e","\"",")"," ","t","o"," ","s","t","r">>)

\* _construct_response first has the generator's own detector analyse the
\* text, ahead of the prompt and of the language model; that detector's
\* classifier is called under the guards of detect_emotion.
ConstructReachesClassifier(pipeline, user_text) ==
  ReachesClassifier(pipeline, PyStr(user_text))

\* _construct_response reaches the language model only when the context is
\* a registered name: the prompt reads self.cultural_context[cultural_context]
\* first, which raises KeyError otherwise.
ReachesLLM(context) == context \in RegisteredContexts

MemoryMaxLen == 5

\* _update_memory
UpdateMemory(memory, user_text, emotion, response) ==
  LET appended ==
        Append(memory,
               [user_text |-> user_text, emotion |-> emotion,
                response |-> response,
                timestamp |-> Len(memory)])
  IN IF Len(appended) > MemoryMaxLen THEN Tail(appended) ELSE appended

\* generate_response: raised tells whether it raised, and message is then
\* str(e) of the exception; otherwise the response data and the memory it
\* leaves.
GenerateResponse(memory, emotion_result, user_text, context, llm) ==
  LET emotion == Get(emotion_result, "primary_emotion", "neutral")
      intensity == Get(emotion_result, "intensity", "medium")
      confidence == Get(emotion_result, "confidence", Half)
  IN IF ~ReachesLLM(context)
     THEN [raised |-> TRUE, message |-> KeyErrorText(context),
           response_data |-> << >>,
           conversation_memory |-> memory]
     ELSE IF llm.raises
     THEN [raised |-> TRUE, message |-> llm.message,
           response_data |-> << >>,
           conversation_memory |-> memory]
     ELSE [raised |-> FALSE, message |-> << >>,
           response_data |->
             [response |-> llm.content,
              emotion_addressed |-> emotion,
              cultural_context |-> context,
              confidence |-> confidence,
              intensity |-> intensity,
              response_type |-> ClassifyResponseType(emotion),
              follow_up_suggestions |-> GenerateFollowUpSuggestions(emotion)],
           conversation_memory |->
             UpdateMemory(memory, user_text, emotion, llm.content)]

\* _generate_continuity_response
GenerateContinuityResponse(memory, emotion_result, user_text, context, llm) ==
  LET base == GenerateResponse(memory, emotion_result, user_text,
                               context, llm)
      \* emotion_result.get('primary_emotion') is None without the key, and
      \* None is no key of the prefixes
      prefixed == /\ "primary_emotion" \in DOMAIN emotion_result
                  /\ emotion_result.primary_emotion \in DOMAIN continuity_prefixes
      emotion == emotion_result.primary_emotion
  IN IF base.raised \/ ~prefixed THEN base
     ELSE IF llm.none
     THEN \* str + None raises TypeError, after generate_response has returned
          [raised |-> TRUE, message |-> ConcatNoneText,
           response_data |-> << >>,
           conversation_memory |-> base.conversation_memory]
     ELSE [base EXCEPT
             !.response_data.response =
                PyStr(continuity_prefixes[emotion] \o @.chars),
             !.response_data.response_type = "continuity_aware"]

\* The pattern test with the last memory entry alone.
GetContextualResponse_LastOnly(memory, emotion_result, user_text, context, llm) ==
  LET n == Len(memory)
  IN IF /\ n > 1
        /\ "primary_emotion" \in DOMAIN emotion_result
        /\ emotion_result.primary_emotion = memory[n].emotion
     THEN GenerateContinuityResponse(memory, emotion_result,
                                     user_text, context, llm)
     ELSE GenerateResponse(memory, emotion_result, user_text,
                           context, llm)

\* get_contextual_response
GetContextualResponse(memory, emotion_result, user_text, context, llm) ==
  LET n == Len(memory)
  IN IF /\ n > 1
        /\ memory[n - 1].emotion = memory[n].emotion
        \* emotion_result.get('primary_emotion'): None without the key, and
        \* no emotion in the memory is None
        /\ "primary_emotion" \in DOMAIN emotion_result
        /\ emotion_result.primary_emotion = memory[n - 1].emotion
     THEN GenerateContinuityResponse(memory, emotion_result,
                                     user_text, context, llm)
     ELSE GenerateResponse(memory, emotion_result, user_text,
                           context, llm)

----------------------------------------------------------------------------
(* Chatbot: EmotionalChatbot                                               *)

\* The cultural context the chatbot is constructed with.
ChatbotContext == Context_default

InitUserProfile ==
  [cultural_context |-> ChatbotContext, total_messages |-> 0,
   dominant_emotions |-> << >>, conversation_themes |-> << >>]

\* The entry with the record put in front of the history.
UpdateConversationHistory_Prepend(history, user_message, emotion_result, response_data) ==
  LET emotion == emotion_result.primary_emotion
      seen == history.user_profile.dominant_emotions
  IN [conversation_history |->
        << [user_message |-> user_message,
            emotion |-> emotion,
            confidence |-> emotion_result.confidence,
            intensity |-> emotion_result.intensity,
            bot_response |-> response_data.response,
            response_type |-> response_data.response_type] >>
          \o history.conversation_history,
      emotion_history |-> <<emotion_result>> \o history.emotion_history,
      user_profile |->
        [history.user_profile EXCEPT
           !.total_messages = @ + 1,
           !.dominant_emotions =
              [e \in DOMAIN seen \cup {emotion} |->
                 IF e \in DOMAIN seen
                 THEN IF e = emotion THEN seen[e] + 1 ELSE seen[e]
                 ELSE 1]]]

\* The entry appended without the profile being brought up to date.
UpdateConversationHistory_NoProfile(history, user_message, emotion_result, response_data) ==
  [conversation_history |->
     Append(history.conversation_history,
            [user_message |-> user_message,
             emotion |-> emotion_result.primary_emotion,
             confidence |-> emotion_result.confidence,
             intensity |-> emotion_result.intensity,
             bot_response |-> response_data.response,
             response_type |-> response_data.response_type]),
   emotion_history |-> Append(history.emotion_history, emotion_result),
   user_profile |-> history.user_profile]

\* _update_conversation_history; history holds conversation_history,
\* emotion_history and user_profile. The timestamp of an entry is left out.
UpdateConversationHistory(history, user_message, emotion_result, response_data) ==
  LET emotion == emotion_result.primary_emotion
      seen == history.user_profile.dominant_emotions
  IN [conversation_history |->
        Append(history.conversation_history,
               [user_message |-> user_message,
                emotion |-> emotion,
                confidence |-> emotion_result.confidence,
                intensity |-> emotion_result.intensity,
                bot_response |-> response_data.response,
                response_type |-> response_data.response_type]),
      emotion_history |-> Append(history.emotion_history, emotion_result),
      user_profile |->
        [history.user_profile EXCEPT
           !.total_messages = @ + 1,
           !.dominant_emotions =
              [e \in DOMAIN seen \cup {emotion} |->
                 IF e \in DOMAIN seen
                 THEN IF e = emotion THEN seen[e] + 1 ELSE seen[e]
                 ELSE 1]]]

\* The reply of an error response.
ErrorReply ==
  Str(<<"I"," ","a","p","o","l","o","g","i","z","e",","," ","b","u","t"," ",
        "I","'","m"," ","h","a","v","i","n","g"," ","t","r","o","u","b","l",
        "e"," ","p","r","o","c","e","s","s","i","n","g"," ","y","o","u","r",
        " ","m","e","s","s","a","g","e"," ","r","i","g","h","t"," ","n","o",
        "w","."," ","C","o","u","l","d"," ","y","o","u"," ","p","l","e","a",
        "s","e"," ","t","r","y"," ","a","g","a","i","n","?">>)

\* The texts given to _create_error_response.
InvalidMessageFormat ==
  Str(<<"I","n","v","a","l","i","d"," ","m","e","s","s","a","g","e"," ","f",
        "o","r","m","a","t">>)
ProcessingErrorPrefix ==
  Str(<<"P","r","o","c","e","s","s","i","n","g"," ","e","r","r","o","r",":",
        " ">>)

\* The error response without its error field and with the type of a
\* regular reply.
CreateErrorResponse_Plain(error_message, history) ==
  [bot_response |-> PyStr(ErrorReply),
   emotion_analysis |->
     [primary_emotion |-> "neutral", confidence |-> Zero, intensity |-> "low",
      all_emotions |-> NeutralDistribution],
   response_metadata |->
     [response_type |-> "supportive", cultural_context |-> ChatbotContext,
      follow_up_suggestions |-> "error"],
   conversation_metadata |-> [message_count |-> Len(history)]]

\* _create_error_response; its fixed list of suggestions is named "error",
\* as the lists of _generate_follow_up_suggestions are named by emotion.
CreateErrorResponse(error_message, history) ==
  [bot_response |-> PyStr(ErrorReply),
   emotion_analysis |->
     [primary_emotion |-> "neutral", confidence |-> Zero, intensity |-> "low",
      all_emotions |-> NeutralDistribution],
   response_metadata |->
     [response_type |-> "error", cultural_context |-> ChatbotContext,
      follow_up_suggestions |-> "error"],
   error |-> error_message,
   conversation_metadata |-> [message_count |-> Len(history)]]

\* The optional cultural_context argument of process_message: None, or a
\* name.
NoContext == [given |-> FALSE, name |-> << >>]
GivenContext(name) == [given |-> TRUE, name |-> name]

\* cultural_context or self.cultural_context
EffectiveContext(cultural_context) ==
  IF cultural_context.given /\ cultural_context.name # << >>
  THEN cultural_context.name
  ELSE ChatbotContext

\* process_message on a message that passed the first guard: the response,
\* the detector's scores, and the histories, profile and memory it leaves.
ProcessValidMessage(scores, pipeline, simple, history, memory, user_message, context, outcome, llm) ==
  Apply(LAMBDA d :
    Apply(LAMBDA g :
      IF g.raised
      THEN [response |-> CreateErrorResponse(ProcessingErrorPrefix \o g.message,
                                             history.conversation_history),
            scores |-> d.scores, called |-> d.called, history |-> history,
            conversation_memory |-> g.conversation_memory]
      ELSE Apply(LAMBDA updated :
             [response |->
                [bot_response |-> g.response_data.response,
                 emotion_analysis |->
                   [primary_emotion |-> d.record.primary_emotion,
                    confidence |-> d.record.confidence,
                    intensity |-> d.record.intensity,
                    all_emotions |-> d.record.all_emotions],
                 response_metadata |->
                   [response_type |-> g.response_data.response_type,
                    cultural_context |-> context,
                    follow_up_suggestions |->
                      g.response_data.follow_up_suggestions],
                 conversation_metadata |->
                   [message_count |-> Len(updated.conversation_history)]],
              scores |-> d.scores, called |-> d.called, history |-> updated,
              conversation_memory |-> g.conversation_memory],
             UpdateConversationHistory(history, user_message.chars, d.record,
                                       g.response_data)),
      GetContextualResponse(memory, d.record, user_message.chars,
                            context, llm)),
    DetectEmotion(scores, pipeline, simple, user_message, context, outcome))

Space == Ord(" ")

\* _identify_themes: ' '.join of the lowered messages.
RECURSIVE JoinLowerFrom(_, _)
JoinLowerFrom(history, i) ==
  IF i > Len(history) THEN << >>
  ELSE IF i = Len(history)
  THEN Lower(history[i].user_message)
  ELSE Lower(history[i].user_message) \o << Space >>
         \o JoinLowerFrom(history, i + 1)

ThemeKeywords_work ==
  << Str(<<"w","o","r","k">>),
     Str(<<"j","o","b">>),
     Str(<<"c","a","r","e","e","r">>),
     Str(<<"c","o","l","l","e","a","g","u","e">>),
     Str(<<"b","o","s","s">>),
     Str(<<"o","f","f","i","c","e">>),
     Str(<<"m","e","e","t","i","n","g">>) >>
ThemeKeywords_relationships ==
  << Str(<<"f","r","i","e","n","d">>),
     Str(<<"f","a","m","i","l","y">>),
     Str(<<"p","a","r","t","n","e","r">>),
     Str(<<"r","e","l","a","t","i","o","n","s","h","i","p">>),
     Str(<<"l","o","v","e">>),
     Str(<<"d","a","t","i","n","g">>) >>
ThemeKeywords_health ==
  << Str(<<"t","i","r","e","d">>),
     Str(<<"s","i","c","k">>),
     Str(<<"h","e","a","l","t","h">>),
     Str(<<"d","o","c","t","o","r">>),
     Str(<<"m","e","d","i","c","i","n","e">>),
     Str(<<"p","a","i","n">>) >>
ThemeKeywords_personal_growth ==
  << Str(<<"l","e","a","r","n","i","n","g">>),
     Str(<<"g","o","a","l">>),
     Str(<<"a","c","h","i","e","v","e","m","e","n","t">>),
     Str(<<"s","u","c","c","e","s","s">>),
     Str(<<"f","a","i","l","u","r","e">>),
     Str(<<"i","m","p","r","o","v","e">>) >>
ThemeKeywords_daily_life ==
  << Str(<<"d","a","y">>),
     Str(<<"m","o","r","n","i","n","g">>),
     Str(<<"e","v","e","n","i","n","g">>),
     Str(<<"h","o","m","e">>),
     Str(<<"r","o","u","t","i","n","e">>),
     Str(<<"s","c","h","e","d","u","l","e">>) >>
theme_keywords ==
  [ work |-> ThemeKeywords_work,
    relationships |-> ThemeKeywords_relationships,
    health |-> ThemeKeywords_health,
    personal_growth |-> ThemeKeywords_personal_growth,
    daily_life |-> ThemeKeywords_daily_life ]
ThemeOrder == << "work", "relationships", "health", "personal_growth", "daily_life" >>

\* The themes found, without the cut to three.
IdentifyThemes_NoCap(history) ==
  IF Len(history) = 0 THEN << >>
  ELSE SelectSeq(ThemeOrder,
                 LAMBDA t : AnyIn(theme_keywords[t],
                                  JoinLowerFrom(history, 1)))

\* _identify_themes
IdentifyThemes(history) ==
  IF Len(history) = 0 THEN << >>
  ELSE
    LET all_messages == JoinLowerFrom(history, 1)
        themes == SelectSeq(ThemeOrder,
                            LAMBDA t : AnyIn(theme_keywords[t], all_messages))
    IN SubSeq(themes, 1, IF Len(themes) < 3 THEN Len(themes) ELSE 3)

\* EmotionalChatbot.get_emotion_trends
ChatbotGetEmotionTrends(history, emotions) ==
  IF Len(emotions) = 0
  THEN [status |-> "No conversation data available", trends |-> << >>,
        recommendations |-> << >>]
  ELSE
    LET trends == GetEmotionTrends(emotions)
        recent == LastN(emotions, 3)
        recent_emotions == [i \in DOMAIN recent |-> recent[i].primary_emotion]
        recommendations ==
          IF trends.dominant_emotion \in {"sadness", "anger", "grief"}
          THEN << "Consider focusing on positive coping strategies",
                  "Professional support might be beneficial if these feelings persist" >>
          ELSE IF trends.dominant_emotion \in {"joy", "love", "amusement"}
          THEN << "Great to see positive emotions! Keep building on what's working" >>
          ELSE << >>
    IN [status |-> "Analysis complete",
        trends |-> trends,
        recent_pattern |-> recent_emotions,
        recommendations |-> recommendations,
        session_summary |->
          [duration_messages |-> Len(history),
           primary_themes |-> IdentifyThemes(history),
           emotional_range |->
             {recent_emotions[i] : i \in DOMAIN recent_emotions}]]

\* sum(len(entry['user_message']) ...) over the entries from index i.
RECURSIVE SumMessageLengths(_, _)
SumMessageLengths(history, i) ==
  IF i > Len(history) THEN 0
  ELSE Len(history[i].user_message)
         + SumMessageLengths(history, i + 1)

\* The thresholds of the average message length and of the share of
\* negative emotions.
LongMessage == FromInt(30)
MostlyNegative == Frac(6, 10)
RarelyNegative == Frac(2, 10)

\* The assessment with "at least" in place of "more than" for the variety.
AssessConversationQuality_AtLeast(history) ==
  IF Len(history) = 0
  THEN [quality |-> "unknown", depth |-> "shallow"]
  ELSE
    LET n == Len(history)
        avg_message_length == Frac(SumMessageLengths(history, 1), n)
        emotion_variety ==
          Cardinality({history[i].emotion : i \in 1..n})
    IN [quality |-> IF FLess(LongMessage, avg_message_length)
                       /\ emotion_variety >= 4
                    THEN "good" ELSE "basic",
        depth |-> IF n > 5 /\ emotion_variety >= 6 THEN "deep" ELSE "moderate",
        engagement_score |->
          IF n + emotion_variety < 10 THEN n + emotion_variety ELSE 10,
        emotional_openness |-> emotion_variety]

\* _assess_conversation_quality
AssessConversationQuality(history) ==
  IF Len(history) = 0
  THEN [quality |-> "unknown", depth |-> "shallow"]
  ELSE
    LET n == Len(history)
        avg_message_length == Frac(SumMessageLengths(history, 1), n)
        emotion_variety ==
          Cardinality({history[i].emotion : i \in 1..n})
    IN [quality |-> IF FLess(LongMessage, avg_message_length)
                       /\ emotion_variety > 4
                    THEN "good" ELSE "basic",
        depth |-> IF n > 5 /\ emotion_variety > 6 THEN "deep" ELSE "moderate",
        engagement_score |->
          IF n + emotion_variety < 10 THEN n + emotion_variety ELSE 10,
        emotional_openness |-> emotion_variety]

\* The emotions _generate_session_recommendations counts as negative.
RecommendationNegatives == {"sadness", "anger", "fear"}

Rec_support ==
  << "Consider seeking additional emotional support",
     "Practice mindfulness or stress-reduction techniques" >>
Rec_positive ==
  << "Keep maintaining your positive mindset!",
     "Share your positive energy with others" >>
Rec_work == "Consider work-life balance strategies"
Rec_relationships == "Focus on healthy communication patterns"

\* The recommendations with the share of negative records compared by
\* "at least" and "at most".
GenerateSessionRecommendations_Inclusive(history) ==
  IF Len(history) = 0
  THEN << "Start a conversation to get personalized recommendations" >>
  ELSE
    LET total_messages == Len(history)
        negative_count ==
          Cardinality({i \in 1..total_messages :
                         history[i].emotion \in RecommendationNegatives})
        share == Frac(negative_count, total_messages)
        themes == IdentifyThemes(history)
        has(t) == \E i \in DOMAIN themes : themes[i] = t
        recommendations ==
          (IF FLeq(MostlyNegative, share) THEN Rec_support
           ELSE IF FLeq(share, RarelyNegative) THEN Rec_positive
           ELSE << >>)
          \o (IF has("work") THEN << Rec_work >> ELSE << >>)
          \o (IF has("relationships") THEN << Rec_relationships >> ELSE << >>)
    IN SubSeq(recommendations, 1,
              IF Len(recommendations) < 4 THEN Len(recommendations) ELSE 4)

\* _generate_session_recommendations
GenerateSessionRecommendations(history) ==
  IF Len(history) = 0
  THEN << "Start a conversation to get personalized recommendations" >>
  ELSE
    LET total_messages == Len(history)
        negative_count ==
          Cardinality({i \in 1..total_messages :
                         history[i].emotion \in RecommendationNegatives})
        share == Frac(negative_count, total_messages)
        themes == IdentifyThemes(history)
        has(t) == \E i \in DOMAIN themes : themes[i] = t
        recommendations ==
          (IF FLess(MostlyNegative, share) THEN Rec_support
           ELSE IF FLess(share, RarelyNegative) THEN Rec_positive
           ELSE << >>)
          \o (IF has("work") THEN << Rec_work >> ELSE << >>)
          \o (IF has("relationships") THEN << Rec_relationships >> ELSE << >>)
    IN SubSeq(recommendations, 1,
              IF Len(recommendations) < 4 THEN Len(recommendations) ELSE 4)

\* get_conversation_summary; the session id and the times are left out.
GetConversationSummary(history, emotions) ==
  IF Len(history) = 0
  THEN [status |-> "No conversation to summarize"]
  ELSE
    LET emotion_distribution ==
          EmotionCounts([i \in DOMAIN history |->
                           history[i].emotion])
        response_types_used ==
          EmotionCounts([i \in DOMAIN history |->
                           history[i].response_type])
    IN [session_summary |->
          [total_messages |-> Len(history),
           cultural_context |-> ChatbotContext],
        emotional_analysis |->
          [dominant_emotion |-> DominantEmotion(emotion_distribution),
           emotion_distribution |-> emotion_distribution,
           emotional_range |-> Len(emotion_distribution.keys),
           trends |-> IF Len(emotions) > 0
                      THEN ChatbotGetEmotionTrends(history,
                                                   emotions).trends
                      ELSE << >>],
        conversation_patterns |->
          [response_types_used |-> response_types_used,
           identified_themes |-> IdentifyThemes(history),
           conversation_quality |->
             AssessConversationQuality(history)],
        recommendations |-> GenerateSessionRecommendations(history)]

----------------------------------------------------------------------------
(* Inputs                                                                  *)

\* Labels a classifier output may carry: two of the taxonomy, one of them of
\* the neutral class, and one the taxonomy does not know. The score of an
\* unrecognized label is never read (emotion_detector.py:254-255), so one
\* score stands for all of them.
ItemLabels == {"joy", "neutral"}
UnknownLabel == "LABEL_0"
ItemScores == {Zero, Frac(1, 10), Frac(9, 10)}
Items ==
  [label : ItemLabels, score : ItemScores]
    \cup {[label |-> UnknownLabel, score |-> Frac(1, 10)]}

\* Classifier outputs of at most n items, no label twice.
ResultLists(n) ==
  UNION { { r \in [1..k -> Items] :
              \A i, j \in 1..k : i # j => r[i].label # r[j].label } : k \in 0..n }

\* The classifier outputs given to the Score Normalizer.
NormalizerInputs == ResultLists(MaxItems)

Text_happy == Str(<<"I"," ","a","m"," ","h","a","p","p","y">>)
Text_sad == Str(<<"s","o"," ","s","a","d","!","!","!">>)
Text_hello == Str(<<"h","e","l","l","o">>)

\* Values given as text: a text with a keyword and an upper-case letter, one
\* with a keyword and exclamation marks, one with neither, and the values
\* the first guard rejects.
TextArgs ==
  { PyStr(Text_happy), PyStr(Text_sad), PyStr(Text_hello),
    PyStr(<< >>), PyNone, PyInt(42) }

Item(label, n) == [label |-> label, score |-> Frac(n, 10)]

\* What the classifier may do when detect_emotion calls it.
DetectOutcomes ==
  { Raises,
    Returns(<< >>),
    Returns(<< Item("joy", 9), Item("neutral", 1) >>),
    Returns(<< Item("joy", 9), Item("neutral", 9) >>),
    Returns(<< Item("neutral", 0) >>),
    Returns(<< Item("LABEL_0", 9) >>),
    Returns(<< Item("joy", 1), Item("LABEL_0", 9) >>),
    \* joy 0.75 before the profile; under 'eastern' 0.3 * 0.8 / 0.32 is the
    \* float below 0.75
    Returns(<< Item("joy", 3), Item("anger", 1) >>),
    \* under 'eastern' anger 1.0 * 0.8 and neutral 0.8 are the same float
    Returns(<< [label |-> "joy", score |-> Frac(5, 100)],
               Item("anger", 10), Item("neutral", 8) >>) }

\* A name that no profile is registered under.
Context_nordic == Str(<<"n","o","r","d","i","c">>)

ContextNames == {Context_western, Context_eastern, Context_default, Context_nordic}

\* The texts the first guard of detect_emotion lets through, and the others.
ValidTexts == {text \in TextArgs : Truthy(text) /\ text.kind = "str"}

DetectCall(text, context, outcome) ==
  [text |-> text, context |-> context, outcome |-> outcome]

\* The calls of detect_emotion, each with what the classifier does if it is
\* reached: every value the guard rejects, under every context; every text
\* under every context with a classifier that raises; the plain text under
\* every context with every classifier output; and the texts with an
\* upper-case letter or exclamation marks with an empty output and with a
\* tie, under a context with a profile and one without.
DetectCalls ==
  { DetectCall(text, context, NotCalled) :
      text \in TextArgs \ ValidTexts, context \in ContextNames }
  \cup { DetectCall(text, context, Raises) :
           text \in ValidTexts, context \in ContextNames }
  \cup { DetectCall(PyStr(Text_hello), context, outcome) :
           context \in ContextNames, outcome \in DetectOutcomes }
  \cup { DetectCall(text, context, outcome) :
           text \in {PyStr(Text_happy), PyStr(Text_sad)},
           context \in {Context_eastern, Context_nordic},
           outcome \in { Returns(<< >>),
                         Returns(<< Item("joy", 9), Item("neutral", 9) >>) } }

BatchItem(text, outcome) == [text |-> text, outcome |-> outcome]

\* Lists of texts given to batch_detect_emotions under one context, each
\* text with what the classifier does if it is reached: three plain texts
\* under the default profile, the last with a zero-sum output; a list whose
\* second output is a tie and whose third call raises, under 'eastern'; and
\* a list that starts with a value the guard rejects, under no profile.
BatchRuns ==
  { [context |-> Context_default,
     items |-> << BatchItem(PyStr(Text_hello),
                            Returns(<< Item("joy", 9), Item("neutral", 1) >>)),
                  BatchItem(PyStr(Text_happy),
                            Returns(<< Item("joy", 3), Item("anger", 1) >>)),
                  BatchItem(PyStr(Text_sad),
                            Returns(<< Item("neutral", 0) >>)) >>],
    [context |-> Context_eastern,
     items |-> << BatchItem(PyStr(Text_hello),
                            Returns(<< Item("joy", 3), Item("anger", 1) >>)),
                  BatchItem(PyStr(Text_happy),
                            Returns(<< Item("joy", 9), Item("neutral", 9) >>)),
                  BatchItem(PyStr(Text_sad), Raises) >>],
    [context |-> Context_nordic,
     items |-> << BatchItem(PyNone, NotCalled),
                  BatchItem(PyStr(Text_sad), Raises),
                  BatchItem(PyStr(Text_hello),
                            Returns(<< Item("joy", 9), Item("neutral", 1) >>)) >>] }

\* The calls of batch_detect_emotions: the empty list and every list of
\* the first texts of a list above, under the context of that list.
BatchCalls ==
  { [context |-> run.context, items |-> SubSeq(run.items, 1, n)] :
      run \in BatchRuns, n \in 0..3 }

\* Number of equal parts a complete distribution is cut into for the
\* Cultural Adjuster's inputs.
AdjUnits == 4

AdjLabels == <<"joy", "anger", "neutral", "surprise">>

\* The distribution that gives AdjLabels[i] the share w[i] / units, and 0 to
\* every other label.
Shares(w, units) ==
  [e \in Emotions |->
     IF \E i \in 1..Len(AdjLabels) : AdjLabels[i] = e
     THEN Frac(w[CHOOSE i \in 1..Len(AdjLabels) : AdjLabels[i] = e], units)
     ELSE Zero]

\* Two distributions that show the rounding of the floats: joy 0.25 and
\* anger 0.75, where 0.75 * 0.8 / 0.8 is the float above 0.75; and sixths,
\* whose floats add up to the float below 1.0.
RoundedDistributions ==
  { Shares(<< 1, 3, 0, 0 >>, 4), Shares(<< 0, 1, 1, 4 >>, 6) }

\* Complete distributions: AdjUnits parts spread over AdjLabels, 0 elsewhere.
CompleteDistributions ==
  { Shares(w, AdjUnits) :
      w \in { v \in [1..Len(AdjLabels) -> 0..AdjUnits] :
                v[1] + v[2] + v[3] + v[4] = AdjUnits } }
    \cup RoundedDistributions

ContextArgs == {StrContext(c) : c \in ContextNames} \cup {UnhashableContext}

\* Texts given to the Intensity Classifier: no surface signal; 1, 2 and 3
\* exclamation marks (the last without the lexicon phrase '!!!'); upper-case
\* ratios 0.1, exactly 0.3 and 0.4; phrases of the high, medium and low
\* lexicons, alone and together; the low phrase 'I guess' in both cases; the
\* text of the end-to-end example.
IText_plain == Str(<<"h","e","l","l","o">>)
IText_exclam1 == Str(<<"f","i","n","e","!">>)
IText_exclam2 == Str(<<"f","i","n","e","!","!">>)
IText_exclam3 == Str(<<"a","!","b","!","c","!">>)
IText_caps10 == Str(<<"A","b","c","d","e","f","g","h","i","j">>)
IText_caps30 == Str(<<"A","B","C","d","e","f","g","h","i","j">>)
IText_caps40 == Str(<<"A","B","C","D","e","f","g","h","i","j">>)
IText_very == Str(<<"v","e","r","y"," ","b","a","d">>)
IText_quite == Str(<<"q","u","i","t","e"," ","b","a","d">>)
IText_maybe == Str(<<"m","a","y","b","e"," ","b","a","d">>)
IText_quite_maybe == Str(<<"q","u","i","t","e"," ","m","a","y","b","e">>)
IText_very_quite == Str(<<"v","e","r","y"," ","q","u","i","t","e">>)
IText_i_guess == Str(<<"i"," ","g","u","e","s","s">>)
IText_I_guess == Str(<<"I"," ","g","u","e","s","s"," ","i","t">>)
IText_happy3 == Str(<<"I","'","m"," ","s","o"," ","h","a","p","p","y","!","!","!">>)

IntensityTexts ==
  { PyStr(IText_plain), PyStr(IText_exclam1), PyStr(IText_exclam2),
    PyStr(IText_exclam3), PyStr(IText_caps10), PyStr(IText_caps30),
    PyStr(IText_caps40), PyStr(IText_very), PyStr(IText_quite),
    PyStr(IText_maybe), PyStr(IText_quite_maybe), PyStr(IText_very_quite),
    PyStr(IText_i_guess), PyStr(IText_I_guess), PyStr(IText_happy3),
    PyStr(<< >>), PyNone, PyInt(0), PyInt(42) }

\* Peak scores in hundredths, on both sides of the two tier thresholds.
PeakPercents == {100, 90, 75, 74, 50, 45, 44, 40}

\* A complete distribution whose highest score is p/100, held by joy.
PeakDistribution(p) ==
  [e \in Emotions |->
     CASE e = "joy" -> Frac(p, 100)
       [] e = "anger" /\ p < 50 -> Frac(p, 100)
       [] e = "neutral" -> IF p < 50 THEN Frac(100 - 2 * p, 100)
                           ELSE Frac(100 - p, 100)
       [] OTHER -> Zero]

\* The dict {}.
EmptyDistribution == [e \in {} |-> Zero]

IntensityDistributions ==
  {PeakDistribution(p) : p \in PeakPercents} \cup {EmptyDistribution}

\* Records given to the Trend Analyzer, with the two fields it reads: a
\* positive, a negative and a second negative emotion, the last with an
\* intensity outside the three levels; a record without primary_emotion; a
\* record of the neutral class without intensity.
Rec_joy == [primary_emotion |-> "joy", intensity |-> "high"]
Rec_anger == [primary_emotion |-> "anger", intensity |-> "medium"]
Rec_sadness == [primary_emotion |-> "sadness", intensity |-> "extreme"]
Rec_no_emotion == [intensity |-> "medium"]
Rec_no_intensity == [primary_emotion |-> "surprise"]

TrendRecords == {Rec_joy, Rec_anger, Rec_sadness, Rec_no_emotion, Rec_no_intensity}
RunRecords == {Rec_joy, Rec_anger}

\* Longest run of one record at either end of an input, and longest free
\* middle part.
MaxRun == 5
MaxMiddle == 2

SeqsUpTo(set, n) == UNION {[1..k -> set] : k \in 0..n}

Repeat(x, k) == [i \in 1..k |-> x]

\* Inputs of get_emotion_trends: a run, any short sequence, a run. They reach
\* past the 10 entries of the trend buffer.
TrendInputs ==
  { Repeat(head.r, head.k) \o middle \o Repeat(tail.r, tail.k) :
      head \in [r : RunRecords, k : 0..MaxRun],
      middle \in SeqsUpTo(TrendRecords, MaxMiddle),
      tail \in [r : RunRecords, k : 0..MaxRun] }

\* Windows given to _calculate_trend directly.
MaxWindow == 3
WindowEmotions == {"joy", "anger", "sadness", "neutral", "surprise"}
TrendWindows == SeqsUpTo(WindowEmotions, MaxWindow)

\* Messages given to the chatbot: two texts the keyword detector reads as joy
\* and as sadness, the empty text, and a value that is not a string.
ChatMessages == {PyStr(Text_happy), PyStr(Text_sad), PyStr(<< >>), PyInt(42)}

\* The cultural_context argument: left out, or a name that is not registered.
ChatContexts == {NoContext, GivenContext(Context_nordic)}

\* The calls of process_message: a text with either context, or a message
\* the first guard turns away, which no context changes anything for.
ChatCalls ==
  { c \in [user_message : ChatMessages, cultural_context : ChatContexts] :
      (~Truthy(c.user_message) \/ c.user_message.kind # "str")
         => c.cultural_context = NoContext }

\* What the classifier and the language model may do during a message. A
\* classifier that raises leaves the chatbot where one that was never loaded
\* does, which the initial states cover.
ChatOutcomes == {Returns(<< Item("joy", 9), Item("neutral", 1) >>)}
\* What the language model says, and what its failure says.
Text_reply == Str(<<"r","e","p","l","y">>)
Text_llm_down == Str(<<"l","l","m"," ","d","o","w","n">>)

LLMOutcomes ==
  {LLMRaises(Text_llm_down), LLMReturns(Text_reply), LLMReturnsNone}

\* Number of process_message calls in a session.
MaxMessages == 3

\* Messages that name themes: one theme each, four themes at once, two
\* halves of a keyword, and none.
PText_job == Str(<<"m","y"," ","J","o","b">>)
PText_friend == Str(<<"a"," ","f","r","i","e","n","d">>)
PText_tired == Str(<<"s","o"," ","t","i","r","e","d">>)
PText_goal == Str(<<"n","e","w"," ","g","o","a","l">>)
PText_day == Str(<<"g","o","o","d"," ","d","a","y">>)
PText_four == Str(<<"f","r","i","e","n","d"," ","t","i","r","e","d"," ",
                "g","o","a","l"," ","d","a","y">>)
PText_jo == Str(<<"j","o">>)
PText_b == Str(<<"b">>)
PText_job_friend == Str(<<"j","o","b"," ","f","r","i","e","n","d">>)
ThemeMessages ==
  { PText_job, PText_friend, PText_tired, PText_goal, PText_day, PText_four,
    PText_jo, PText_b, Text_hello }

\* An entry of conversation_history as the profiler reads it.
Entry(user_message, emotion) ==
  [user_message |-> user_message, emotion |-> emotion]

\* Histories of messages that name themes.
MaxThemeMessages == 2
ThemeHistories ==
  { [i \in DOMAIN messages |-> Entry(messages[i], "neutral")] :
      messages \in SeqsUpTo(ThemeMessages, MaxThemeMessages) }

\* Histories of up to MaxValence records of which the first k carry an
\* emotion counted as negative; the first message may name themes.
MaxValence == 5
ValenceFirstMessages == { Text_hello, PText_job, PText_friend, PText_job_friend }
ValenceEmotions == << "sadness", "anger", "fear" >>
ValenceHistories ==
  { [i \in 1..c.n |->
       Entry(IF i = 1 THEN first ELSE Text_hello,
             IF i <= c.k THEN ValenceEmotions[((i - 1) % 3) + 1] ELSE "joy")] :
      c \in {x \in [n : 1..MaxValence, k : 0..MaxValence] : x.k <= x.n},
      first \in ValenceFirstMessages }

\* Histories of up to MaxRecords records over the first v of seven emotions,
\* with messages of 30 characters, of 31, or one of 31 among ones of 30.
MaxRecords == 7
VarietyEmotions ==
  << "joy", "sadness", "anger", "fear", "surprise", "love", "neutral" >>
QualityLengths == { <<30, 30>>, <<31, 31>>, <<31, 30>> }
QualityHistories ==
  { [i \in 1..c.n |->
       Entry(Repeat(Ord("x"), IF i = 1 THEN lengths[1] ELSE lengths[2]),
             VarietyEmotions[((i - 1) % c.v) + 1])] :
      c \in {x \in [n : 1..MaxRecords, v : 1..Len(VarietyEmotions)] : x.v <= x.n},
      lengths \in QualityLengths }

ProfileHistories == ThemeHistories \cup ValenceHistories \cup QualityHistories

\* Records given to the response generator when it is called directly: an
\* emotion with a continuity prefix, another one, one without, and a record
\* that has no 'primary_emotion' key.
GeneratorEmotions == {"joy", "sadness", "neutral"}
GeneratorRecords ==
  { [primary_emotion |-> e, confidence |-> Half, intensity |-> "medium"] :
      e \in GeneratorEmotions }
    \cup { [confidence |-> Half, intensity |-> "medium"] }
GeneratorLLMOutcomes == {LLMRaises(Text_llm_down), LLMReturns(Text_reply)}

\* Number of get_contextual_response calls on one generator; the memory
\* keeps 5 exchanges.
MaxExchanges == 6

----------------------------------------------------------------------------
(* State                                                                   *)

VARIABLES
  emotion_scores,     \* self.emotion_scores of the detector
  emotion_pipeline,   \* TRUE when self.emotion_pipeline is a loaded pipeline
  simple_detector,    \* TRUE when self.simple_detector is a SimpleEmotionDetector
  calls,              \* number of calls made so far
  op,                 \* the last method called
  arg,                \* its arguments, with self.emotion_scores before the call
  result,             \* the value it returned
  classifier_called,  \* whether the call invoked the external classifier
  raised,             \* whether the call raised to its caller
  conversation_history,  \* chatbot.conversation_history
  emotion_history,       \* chatbot.emotion_history
  user_profile,          \* chatbot.user_profile
  conversation_memory    \* chatbot.response_generator.conversation_memory

chat_vars == << conversation_history, emotion_history, user_profile,
                conversation_memory >>

vars == << emotion_scores, emotion_pipeline, simple_detector, calls, op, arg,
           result, classifier_called, raised, chat_vars >>

\* After EmotionDetector.__init__: the pipeline is loaded or not, depending
\* on the installation; likewise the import of the simple detector. After
\* EmotionalChatbot.__init__ the histories and the memory are empty.
Init ==
  /\ emotion_scores = InitEmotionScores
  /\ emotion_pipeline \in BOOLEAN
  /\ simple_detector \in BOOLEAN
  /\ calls = 0
  /\ op = "__init__"
  /\ arg = << >>
  /\ result = << >>
  /\ classifier_called = FALSE
  /\ raised = FALSE
  /\ conversation_history = << >>
  /\ emotion_history = << >>
  /\ user_profile = InitUserProfile
  /\ conversation_memory = << >>

\* detector._process_model_output(results)
ProcessModelOutputCall ==
  /\ calls < MaxCalls
  /\ \E results \in NormalizerInputs :
       \E returned \in {ProcessModelOutput(emotion_scores, results)} :
          /\ emotion_scores' = returned
          /\ result' = returned
          /\ arg' = [results |-> results, scores |-> emotion_scores]
  /\ op' = "_process_model_output"
  /\ calls' = calls + 1
  /\ classifier_called' = FALSE
  /\ raised' = FALSE
  /\ UNCHANGED << emotion_pipeline, simple_detector >>
  /\ UNCHANGED chat_vars

\* The calls of the adjuster on the inputs of the model, each with what it
\* returns.
AdjusterCalls ==
  { [emotion_scores |-> scores, context |-> context,
     returned |-> ApplyCulturalContext(scores, context)] :
    scores \in CompleteDistributions, context \in ContextArgs }

\* detector._apply_cultural_context(emotion_scores, context)
ApplyCulturalContextCall ==
  /\ \E call \in AdjusterCalls :
       /\ result' = call.returned
       /\ arg' = [emotion_scores |-> call.emotion_scores,
                  context |-> call.context]
  /\ op' = "_apply_cultural_context"
  /\ classifier_called' = FALSE
  /\ raised' = FALSE
  /\ UNCHANGED << emotion_scores, emotion_pipeline, simple_detector, calls >>
  /\ UNCHANGED chat_vars

\* detector.detect_emotion(text, cultural_context)
DetectEmotionCall ==
  /\ calls < MaxCalls
  /\ \E call \in DetectCalls :
     \E outcome \in {IF ReachesClassifier(emotion_pipeline, call.text)
                     THEN call.outcome
                     ELSE NotCalled} :
       \E d \in {DetectEmotion(emotion_scores, emotion_pipeline, simple_detector,
                              call.text, call.context, outcome)} :
          /\ emotion_scores' = d.scores
          /\ result' = d.record
          /\ classifier_called' = d.called
          /\ arg' = [text |-> call.text, context |-> call.context,
                     outcome |-> outcome,
                     scores |-> emotion_scores]
  /\ op' = "detect_emotion"
  /\ calls' = calls + 1
  /\ raised' = FALSE
  /\ UNCHANGED << emotion_pipeline, simple_detector >>
  /\ UNCHANGED chat_vars

\* detector.batch_detect_emotions(texts, cultural_context): one call of
\* detect_emotion per text, each counted among the calls on the detector.
\* A list longer than the calls that are left is given to a fresh detector
\* only, and uses them all.
BatchDetectEmotionsCall ==
  /\ calls < MaxCalls
  /\ \E call \in BatchCalls :
       /\ calls = 0 \/ calls + Len(call.items) <= MaxCalls
       /\ \E texts \in {[i \in DOMAIN call.items |-> call.items[i].text]} :
          \E outcomes \in {[i \in DOMAIN call.items |->
                              IF ReachesClassifier(emotion_pipeline, texts[i])
                              THEN call.items[i].outcome
                              ELSE NotCalled]} :
            \E b \in {BatchDetectEmotions(emotion_scores, emotion_pipeline,
                                          simple_detector, texts, call.context,
                                          outcomes)} :
               /\ emotion_scores' = b.scores
               /\ result' = b.records
               /\ classifier_called' = b.called
               /\ arg' = [texts |-> texts, context |-> call.context,
                          outcomes |-> outcomes,
                          scores |-> emotion_scores]
               /\ calls' = IF Len(texts) = 0 THEN calls + 1
                           ELSE IF calls + Len(texts) > MaxCalls THEN MaxCalls
                           ELSE calls + Len(texts)
  /\ op' = "batch_detect_emotions"
  /\ raised' = FALSE
  /\ UNCHANGED << emotion_pipeline, simple_detector >>
  /\ UNCHANGED chat_vars

\* detector._calculate_intensity(emotion_scores, text)
CalculateIntensityCall ==
  /\ \E scores \in IntensityDistributions, text \in IntensityTexts :
       /\ result' = CalculateIntensity(scores, text)
       /\ arg' = [emotion_scores |-> scores, text |-> text]
  /\ op' = "_calculate_intensity"
  /\ classifier_called' = FALSE
  /\ raised' = FALSE
  /\ UNCHANGED << emotion_scores, emotion_pipeline, simple_detector, calls >>
  /\ UNCHANGED chat_vars

\* The Trend Analyzer reads and writes no field of the detector, so its calls
\* are explored as the first call made on a detector.
FirstCall == op = "__init__"

\* detector.get_emotion_trends(emotion_results)
GetEmotionTrendsCall ==
  /\ FirstCall
  /\ \E emotion_results \in TrendInputs :
       /\ result' = GetEmotionTrends(emotion_results)
       /\ arg' = [emotion_results |-> emotion_results]
  /\ op' = "get_emotion_trends"
  /\ classifier_called' = FALSE
  /\ raised' = FALSE
  /\ UNCHANGED << emotion_scores, emotion_pipeline, simple_detector, calls >>
  /\ UNCHANGED chat_vars

\* detector._calculate_trend(emotions)
CalculateTrendCall ==
  /\ FirstCall
  /\ \E emotions \in TrendWindows :
       /\ result' = CalculateTrend(emotions)
       /\ arg' = [emotions |-> emotions]
  /\ op' = "_calculate_trend"
  /\ classifier_called' = FALSE
  /\ raised' = FALSE
  /\ UNCHANGED << emotion_scores, emotion_pipeline, simple_detector, calls >>
  /\ UNCHANGED chat_vars

\* chatbot.process_message(user_message, cultural_context)
ProcessMessageCall ==
  /\ calls < MaxMessages
  /\ \E user_message \in ChatMessages, cultural_context \in ChatContexts :
       /\ [user_message |-> user_message,
           cultural_context |-> cultural_context] \in ChatCalls
       /\ IF ~Truthy(user_message) \/ user_message.kind # "str"
          THEN /\ result' = CreateErrorResponse(InvalidMessageFormat,
                                                conversation_history)
               /\ arg' = [user_message |-> user_message,
                          cultural_context |-> cultural_context,
                          outcome |-> NotCalled, llm |-> LLMNotCalled]
               /\ classifier_called' = FALSE
               /\ UNCHANGED << emotion_scores, chat_vars >>
          ELSE
            \E outcome \in IF ReachesClassifier(emotion_pipeline, user_message)
                           THEN ChatOutcomes ELSE {NotCalled},
               llm \in IF ReachesLLM(EffectiveContext(cultural_context))
                       THEN LLMOutcomes ELSE {LLMNotCalled} :
              \E p \in {ProcessValidMessage(
                          emotion_scores, emotion_pipeline, simple_detector,
                          [conversation_history |-> conversation_history,
                           emotion_history |-> emotion_history,
                           user_profile |-> user_profile],
                          conversation_memory, user_message,
                          EffectiveContext(cultural_context), outcome, llm)} :
                 /\ result' = p.response
                 /\ arg' = [user_message |-> user_message,
                            cultural_context |-> cultural_context,
                            outcome |-> outcome, llm |-> llm]
                 /\ classifier_called' = p.called
                 /\ emotion_scores' = p.scores
                 /\ conversation_history' = p.history.conversation_history
                 /\ emotion_history' = p.history.emotion_history
                 /\ user_profile' = p.history.user_profile
                 /\ conversation_memory' = p.conversation_memory
  /\ op' = "process_message"
  /\ calls' = calls + 1
  /\ raised' = FALSE
  /\ UNCHANGED << emotion_pipeline, simple_detector >>

\* chatbot.get_emotion_trends()
ChatbotGetEmotionTrendsCall ==
  /\ op # "chatbot.get_emotion_trends"
  /\ result' = ChatbotGetEmotionTrends(conversation_history, emotion_history)
  /\ arg' = << >>
  /\ op' = "chatbot.get_emotion_trends"
  /\ classifier_called' = FALSE
  /\ raised' = FALSE
  /\ UNCHANGED << emotion_scores, emotion_pipeline, simple_detector, calls >>
  /\ UNCHANGED chat_vars

\* A read that counts itself as a message in the profile.
ReadCall_CountsMessage(name, given, returned) ==
  /\ op' = name
  /\ arg' = given
  /\ result' = returned
  /\ classifier_called' = FALSE
  /\ raised' = FALSE
  /\ user_profile' = [user_profile EXCEPT !.total_messages = @ + 1]
  /\ UNCHANGED << emotion_scores, emotion_pipeline, simple_detector, calls >>
  /\ UNCHANGED << conversation_history, emotion_history, conversation_memory >>

\* A call that only reads: the operation, what it was given and what it
\* returned are recorded, and nothing else is assigned.
ReadCall(name, given, returned) ==
  /\ op' = name
  /\ arg' = given
  /\ result' = returned
  /\ classifier_called' = FALSE
  /\ raised' = FALSE
  /\ UNCHANGED << emotion_scores, emotion_pipeline, simple_detector, calls >>
  /\ UNCHANGED chat_vars

\* _identify_themes on a chatbot that holds a given history
IdentifyThemesApply ==
  /\ FirstCall
  /\ \E history \in ProfileHistories :
       ReadCall("_identify_themes", [conversation_history |-> history],
                IdentifyThemes(history))

\* _assess_conversation_quality on a chatbot that holds a given history
AssessConversationQualityApply ==
  /\ FirstCall
  /\ \E history \in ProfileHistories :
       ReadCall("_assess_conversation_quality",
                [conversation_history |-> history],
                AssessConversationQuality(history))

\* _generate_session_recommendations on a chatbot that holds a given history
GenerateSessionRecommendationsApply ==
  /\ FirstCall
  /\ \E history \in ProfileHistories :
       ReadCall("_generate_session_recommendations",
                [conversation_history |-> history],
                GenerateSessionRecommendations(history))

\* chatbot.get_conversation_summary(), which calls _identify_themes,
\* _assess_conversation_quality, _generate_session_recommendations and
\* get_emotion_trends
GetConversationSummaryCall ==
  /\ op # "get_conversation_summary"
  /\ ReadCall("get_conversation_summary", << >>,
              GetConversationSummary(conversation_history, emotion_history))

\* response_generator.get_contextual_response(emotion_result, user_text,
\* cultural_context)
GetContextualResponseCall ==
  /\ calls < MaxExchanges
  /\ \E emotion_result \in GeneratorRecords, llm \in GeneratorLLMOutcomes :
       \E g \in {GetContextualResponse(conversation_memory, emotion_result,
                                       Text_hello, ChatbotContext, llm)} :
          /\ raised' = g.raised
          /\ result' = g.response_data
          /\ conversation_memory' = g.conversation_memory
          /\ arg' = [emotion_result |-> emotion_result,
                     user_text |-> Text_hello,
                     cultural_context |-> ChatbotContext, llm |-> llm]
  /\ op' = "get_contextual_response"
  /\ calls' = calls + 1
  /\ classifier_called' = ConstructReachesClassifier(emotion_pipeline, Text_hello)
  /\ UNCHANGED << emotion_scores, emotion_pipeline, simple_detector >>
  /\ UNCHANGED << conversation_history, emotion_history, user_profile >>

\* response_generator.generate_response(emotion_result, user_text,
\* cultural_context), called directly.
GenerateResponseCall ==
  /\ calls < MaxExchanges
  /\ \E emotion_result \in GeneratorRecords, llm \in GeneratorLLMOutcomes :
       \E g \in {GenerateResponse(conversation_memory, emotion_result,
                                  Text_hello, ChatbotContext, llm)} :
          /\ raised' = g.raised
          /\ result' = g.response_data
          /\ conversation_memory' = g.conversation_memory
          /\ arg' = [emotion_result |-> emotion_result,
                     user_text |-> Text_hello,
                     cultural_context |-> ChatbotContext, llm |-> llm]
  /\ op' = "generate_response"
  /\ calls' = calls + 1
  /\ classifier_called' = ConstructReachesClassifier(emotion_pipeline, Text_hello)
  /\ UNCHANGED << emotion_scores, emotion_pipeline, simple_detector >>
  /\ UNCHANGED << conversation_history, emotion_history, user_profile >>

\* Calls of the Score Normalizer on one detector.
NextNorm == ProcessModelOutputCall
SpecNorm == Init /\ [][NextNorm]_vars

\* Calls of the Cultural Adjuster.
NextAdjust == ApplyCulturalContextCall
SpecAdjust == Init /\ [][NextAdjust]_vars

\* Calls of detect_emotion on one detector.
NextDetect ==
  \/ DetectEmotionCall
  \/ BatchDetectEmotionsCall
SpecDetect == Init /\ [][NextDetect]_vars

\* Calls of the Intensity Classifier.
NextIntensity == CalculateIntensityCall
SpecIntensity == Init /\ [][NextIntensity]_vars

\* Calls of the Trend Analyzer.
NextTrends == GetEmotionTrendsCall \/ CalculateTrendCall
SpecTrends == Init /\ [][NextTrends]_vars

\* Calls of the Conversation Profiler on given histories.
NextProfile ==
  \/ IdentifyThemesApply
  \/ AssessConversationQualityApply
  \/ GenerateSessionRecommendationsApply
SpecProfile == Init /\ [][NextProfile]_vars

\* Calls of the response generator on its own.
NextGenerator == GetContextualResponseCall \/ GenerateResponseCall
SpecGenerator == Init /\ [][NextGenerator]_vars

\* A session of the chatbot.
NextChat ==
  \/ ProcessMessageCall
  \/ ChatbotGetEmotionTrendsCall
  \/ GetConversationSummaryCall
SpecChat == Init /\ [][NextChat]_vars

Next ==
  \/ ProcessModelOutputCall
  \/ ApplyCulturalContextCall
  \/ DetectEmotionCall
  \/ BatchDetectEmotionsCall
  \/ CalculateIntensityCall
  \/ GetEmotionTrendsCall
  \/ CalculateTrendCall
  \/ ProcessMessageCall
  \/ ChatbotGetEmotionTrendsCall
  \/ IdentifyThemesApply
  \/ AssessConversationQualityApply
  \/ GenerateSessionRecommendationsApply
  \/ GetConversationSummaryCall
  \/ GetContextualResponseCall
  \/ GenerateResponseCall
Spec == Init /\ [][Next]_vars

----------------------------------------------------------------------------
(* Predicates shared by the properties                                     *)

NormalizerCalled == op = "_process_model_output"
AdjusterCalled == op = "_apply_cultural_context"
DetectCalled == op = "detect_emotion"
BatchCalled == op = "batch_detect_emotions"

Recognized(item) == item.label \in Emotions

\* The input holds no score other than zero (an empty input included).
OnlyZeroScores(results) == \A i \in 1..Len(results) : results[i].score = Zero

HasPositiveRecognized(results) ==
  \E i \in 1..Len(results) : Recognized(results[i]) /\ FLess(Zero, results[i].score)

HasRecognized(results) == \E i \in 1..Len(results) : Recognized(results[i])

\* The input with its unrecognized items taken out.
RecognizedOnly(results) == SelectSeq(results, Recognized)

\* neutral = 1.0 and every other label at 0.
NeutralOnly == [InitEmotionScores EXCEPT !["neutral"] = One]

\* The four fields that make a record the canonical degraded record.
IsDegraded(record) ==
  /\ record.primary_emotion = "neutral"
  /\ record.confidence = Half
  /\ record.all_emotions = NeutralDistribution
  /\ record.intensity = "low"

\* The classifier was called and raised.
ClassifierRaised == DetectCalled /\ classifier_called /\ arg.outcome.raises

\* The classifier was called and returned the items `results`.
ClassifierReturned(results) ==
  DetectCalled /\ classifier_called /\ ~arg.outcome.raises
  /\ arg.outcome.results = results

InvalidText(text) == ~Truthy(text) \/ text.kind # "str"

\* The floating tolerance of the comparisons of scores: 1e-9.
Tolerance == Frac(1, 1000000000)

\* a <= b and a = b within the tolerance.
AtMost(a, b) == FLeq(a, FAdd(b, Tolerance))
Close(a, b) == AtMost(a, b) /\ AtMost(b, a)

\* The scores sum to 1.0 within the tolerance.
SumsToOne(scores) == Close(SumScores(scores), One)

IsComplete(scores) == DOMAIN scores = Emotions /\ SumsToOne(scores)

----------------------------------------------------------------------------
(* Score Normalizer                                                        *)

\* C1: the Score Normalizer is pure: whatever calls were made before on the
\* detector, a call returns what a first call with the same input returns.
C1_NormalizerIsPure ==
  NormalizerCalled => result = ProcessModelOutput(InitEmotionScores, arg.results)

\* C2: a call whose input is empty or carries only zero scores, also a call
\* made after earlier calls, returns neutral = 1.0 and 0 for every other label.
C2_ZeroInputGivesNeutral ==
  (NormalizerCalled /\ OnlyZeroScores(arg.results)) => result = NeutralOnly

\* C3: when the input holds a positive score on a recognized label, the
\* output covers the whole taxonomy, has no negative score and sums to 1
\* within the floating tolerance.
C3_PositiveInputGivesDistribution ==
  (NormalizerCalled /\ HasPositiveRecognized(arg.results)) =>
     /\ DOMAIN result = Emotions
     /\ \A k \in DOMAIN result : FLeq(Zero, result[k])
     /\ SumsToOne(result)

\* C3 witness: a second call on the detector, with a positive recognized
\* score next to an unrecognized label, over scores left by the first call.
C3_Witness ==
  /\ NormalizerCalled /\ calls = 2
  /\ HasPositiveRecognized(arg.results) /\ ~HasRecognized(<<arg.results[Len(arg.results)]>>)
  /\ arg.scores # InitEmotionScores
  /\ result["joy"] # Zero /\ result["neutral"] # Zero

\* C4: unrecognized labels are ignored: when the input holds a recognized
\* label, the output is the one the same call gives on the input without its
\* unrecognized items, wherever they stand and however many they are.
C4_UnrecognizedLabelsIgnored ==
  (NormalizerCalled /\ HasRecognized(arg.results)) =>
     result = ProcessModelOutput(arg.scores, RecognizedOnly(arg.results))

----------------------------------------------------------------------------
(* detect_emotion                                                          *)

\* C5: when the classifier raises on a non-empty text, the caller receives
\* the canonical degraded record and no exception propagates.
C5_RaiseGivesDegraded ==
  ClassifierRaised => (~raised /\ IsDegraded(result))

\* C6: when the classifier returns an empty mapping for a non-empty text,
\* the record has primary_emotion neutral, confidence 0.5 and intensity low.
C6_EmptyMappingGivesDegraded ==
  ClassifierReturned(<< >>) =>
     /\ result.primary_emotion = "neutral"
     /\ result.confidence = Half
     /\ result.intensity = "low"

\* C7: an empty string or a non-string value gives the canonical degraded
\* record, without a call of the classifier, without raising, and leaves
\* the detector's scores as they were.
C7_InvalidTextShortCircuits ==
  /\ (DetectCalled /\ InvalidText(arg.text)) =>
        /\ result = CreateNeutralResult
        /\ IsDegraded(result)
        /\ ~classifier_called
        /\ ~raised
        /\ emotion_scores = arg.scores
  /\ BatchCalled =>
        /\ ~raised
        /\ \A i \in DOMAIN arg.texts :
              InvalidText(arg.texts[i]) => result[i] = CreateNeutralResult

\* C7 witness: the int 42 given as text to a detector with a loaded pipeline.
C7_Witness ==
  /\ DetectCalled /\ emotion_pipeline
  /\ arg.text = PyInt(42)
  /\ result = CreateNeutralResult

----------------------------------------------------------------------------
(* Cultural Adjuster                                                       *)

\* C8: for a complete input and any context, the output sums to 1 within
\* the floating tolerance; when the adjustment fails the output is the
\* input unchanged.
C8_AdjusterKeepsSum ==
  (AdjusterCalled /\ IsComplete(arg.emotion_scores)) =>
     /\ SumsToOne(result)
     /\ ~arg.context.hashable => result = arg.emotion_scores

\* C8 witness: a reserved adjustment that changed the distribution, with
\* a sum that the rounding of the divisions leaves beside 1.0.
C8_Witness ==
  /\ AdjusterCalled /\ IsComplete(arg.emotion_scores)
  /\ arg.context = StrContext(Context_eastern)
  /\ result # arg.emotion_scores
  /\ SumScores(result) # One

\* C9: against its complete input, the re-normalized output raises no label
\* outside the neutral class under the reserved style and lowers none under
\* the expressive style.
C9_ReservedLowersExpressiveRaises ==
  (AdjusterCalled /\ IsComplete(arg.emotion_scores) /\ arg.context.hashable) =>
     \A k \in Emotions \ neutral_emotions :
        /\ ResolveStyle(arg.context) = "reserved"
             => FLeq(result[k], arg.emotion_scores[k])
        /\ ResolveStyle(arg.context) = "expressive"
             => FLeq(arg.emotion_scores[k], result[k])

\* C9 as amended: against its complete input, the re-normalized output
\* raises no label outside the neutral class by more than the floating
\* tolerance under the reserved style and lowers none by more than the
\* floating tolerance under the expressive style.
C9_WithinFloatingTolerance ==
  (AdjusterCalled /\ IsComplete(arg.emotion_scores) /\ arg.context.hashable) =>
     \A k \in Emotions \ neutral_emotions :
        /\ ResolveStyle(arg.context) = "reserved"
             => AtMost(result[k], arg.emotion_scores[k])
        /\ ResolveStyle(arg.context) = "expressive"
             => AtMost(arg.emotion_scores[k], result[k])

\* C9 witness: a reserved adjustment that strictly lowered joy.
C9_Witness ==
  /\ AdjusterCalled /\ IsComplete(arg.emotion_scores)
  /\ arg.context = StrContext(Context_eastern)
  /\ FLess(result["joy"], arg.emotion_scores["joy"])

\* C10: for a complete input the adjuster is the identity when the resolved
\* style is neither reserved nor expressive: every score is returned as it
\* was given, within the floating tolerance, and the very same float when
\* the floats of the input add up to 1.0; and an unregistered name gives the
\* output the name 'default' gives.
C10_OtherStylesAreIdentity ==
  (AdjusterCalled /\ IsComplete(arg.emotion_scores) /\ arg.context.hashable) =>
     /\ ResolveStyle(arg.context) \notin {"reserved", "expressive"}
          => /\ DOMAIN result = DOMAIN arg.emotion_scores
             /\ \A k \in DOMAIN result : Close(result[k], arg.emotion_scores[k])
             /\ SumScores(arg.emotion_scores) = One => result = arg.emotion_scores
     /\ arg.context.name \notin RegisteredContexts
          => result = ApplyCulturalContext(arg.emotion_scores, StrContext(Context_default))

\* C10 witness: an unregistered name, on a distribution with joy in it.
C10_Witness ==
  /\ AdjusterCalled /\ IsComplete(arg.emotion_scores)
  /\ arg.context = StrContext(Context_nordic)
  /\ arg.emotion_scores["joy"] # Zero
  /\ result = arg.emotion_scores

----------------------------------------------------------------------------
(* Intensity Classifier                                                    *)

IntensityCalled == op = "_calculate_intensity"

\* The evidence of section 4.3, each taken from the text on its own.
EvidenceExclam(chars) == Cardinality({i \in DOMAIN chars : chars[i] = Ord("!")})
EvidenceCaps(chars) == Cardinality({i \in DOMAIN chars : IsUpper(chars[i])})
EvidenceMatch(lexicon, chars) ==
  \E i \in DOMAIN lexicon : Contains(Lower(chars), lexicon[i])

\* The surface conditions of the table. caps_ratio is EvidenceCaps over the
\* length, 0 for an empty text; the comparisons are made in integers.
SurfaceHolds(cond, chars) ==
  LET exclam == EvidenceExclam(chars)
      caps == EvidenceCaps(chars)
      len == Len(chars)
  IN CASE cond = "high_strict" ->
            \/ exclam > 2
            \/ (len > 0 /\ 10 * caps > 3 * len)
            \/ EvidenceMatch(Modifiers_high, chars)
       [] cond = "high" ->
            \/ exclam >= 3
            \/ (len > 0 /\ 10 * caps >= 3 * len)
            \/ EvidenceMatch(Modifiers_high, chars)
       [] cond = "medium" ->
            \/ exclam >= 1
            \/ (len > 0 /\ 10 * caps >= len)
            \/ EvidenceMatch(Modifiers_medium, chars)
       [] cond = "low" -> EvidenceMatch(Modifiers_low, chars)
       [] OTHER -> TRUE

\* Tier 1 is peak >= 0.75, tier 2 is peak >= 0.45, tier 3 is below 0.45.
PeakHigh == Frac(75, 100)
PeakMedium == Frac(45, 100)
PeakTier(peak) ==
  IF FLeq(PeakHigh, peak) THEN 1
  ELSE IF FLeq(PeakMedium, peak) THEN 2
  ELSE 3

\* The 12 rows of the table, top to bottom.
IntensityTable ==
  << [tier |-> 1, cond |-> "high_strict", level |-> "high"],
     [tier |-> 1, cond |-> "medium", level |-> "medium"],
     [tier |-> 1, cond |-> "low", level |-> "low"],
     [tier |-> 1, cond |-> "none", level |-> "high"],
     [tier |-> 2, cond |-> "high", level |-> "high"],
     [tier |-> 2, cond |-> "medium", level |-> "medium"],
     [tier |-> 2, cond |-> "low", level |-> "low"],
     [tier |-> 2, cond |-> "none", level |-> "medium"],
     [tier |-> 3, cond |-> "high", level |-> "high"],
     [tier |-> 3, cond |-> "medium", level |-> "medium"],
     [tier |-> 3, cond |-> "low", level |-> "low"],
     [tier |-> 3, cond |-> "none", level |-> "low"] >>

RowMatches(row, peak, chars) ==
  row.tier = PeakTier(peak) /\ SurfaceHolds(row.cond, chars)

\* The level of the first row that matches.
TableLevel(peak, chars) ==
  LET first == CHOOSE i \in DOMAIN IntensityTable :
                 /\ RowMatches(IntensityTable[i], peak, chars)
                 /\ \A j \in 1..(i - 1) : ~RowMatches(IntensityTable[j], peak, chars)
  IN IntensityTable[first].level

NoSurfaceSignal(peak, chars) ==
  \A i \in DOMAIN IntensityTable :
     (IntensityTable[i].cond # "none") => ~RowMatches(IntensityTable[i], peak, chars)

\* C11: on a text and a non-empty distribution the classifier returns the
\* level of the first matching row of the 12-row table; with no surface
\* signal that is high, medium, low for the three tiers.
C11_IntensityFollowsTable ==
  (IntensityCalled /\ arg.text.kind = "str" /\ DOMAIN arg.emotion_scores # {}) =>
     LET peak == MaxScore(arg.emotion_scores)
         chars == arg.text.chars
     IN /\ result = TableLevel(peak, chars)
        /\ NoSurfaceSignal(peak, chars)
             => result = <<"high", "medium", "low">>[PeakTier(peak)]

\* C11 witness: a peak of exactly 0.75 with an upper-case ratio of exactly
\* 0.3, which the first row leaves to the second.
C11_Witness ==
  /\ IntensityCalled
  /\ arg.text = PyStr(IText_caps30)
  /\ DOMAIN arg.emotion_scores # {}
  /\ MaxScore(arg.emotion_scores) = Frac(3, 4)
  /\ result = "medium"

\* C12: the classifier never raises, and returns low whenever its text is
\* not a string or its distribution is empty.
C12_MalformedGivesLow ==
  IntensityCalled =>
     /\ ~raised
     /\ (arg.text.kind # "str" \/ DOMAIN arg.emotion_scores = {})
          => result = "low"

----------------------------------------------------------------------------
(* Records of detect_emotion                                               *)

IntensityLevels == {"low", "medium", "high"}

\* The records the last call returned from detect_emotion, directly or
\* through batch_detect_emotions.
ReturnedRecords ==
  IF DetectCalled THEN << result >>
  ELSE IF BatchCalled THEN result
  ELSE << >>

\* C13: every record detect_emotion returns, on the model path, the
\* keyword-fallback path and the degraded path, has its confidence within
\* [0, 1] and its intensity among low, medium, high.
C13_RecordWithinRanges ==
  \A i \in DOMAIN ReturnedRecords :
     /\ FLeq(Zero, ReturnedRecords[i].confidence)
     /\ FLeq(ReturnedRecords[i].confidence, One)
     /\ ReturnedRecords[i].intensity \in IntensityLevels

\* C13 witness: the keyword fallback on a direct expression under the
\* western context, where the raised confidence meets the cap.
C13_Witness ==
  /\ DetectCalled /\ ~classifier_called
  /\ arg.text = PyStr(Text_happy) /\ arg.context = Context_western
  /\ result.primary_emotion = "joy"
  /\ result.confidence = ConfidenceCap
  /\ result.intensity = "medium"

----------------------------------------------------------------------------
(* Trend Analyzer                                                          *)

TrendsCalled == op = "get_emotion_trends"
TrendCalled == op = "_calculate_trend"

\* The primary emotion a record counts for: neutral when it carries none.
EmotionOf(record) ==
  IF "primary_emotion" \in DOMAIN record THEN record.primary_emotion ELSE "neutral"

EmotionsOf(records) == [i \in DOMAIN records |-> EmotionOf(records[i])]

Occurrences(emotions, e) == Cardinality({i \in DOMAIN emotions : emotions[i] = e})

FirstOccurrence(emotions, e) ==
  CHOOSE i \in DOMAIN emotions :
     emotions[i] = e /\ \A j \in 1..(i - 1) : emotions[j] # e

\* The last k entries, all of them when there are fewer.
Suffix(seq, k) ==
  SubSeq(seq, IF Len(seq) > k THEN Len(seq) - k + 1 ELSE 1, Len(seq))

\* The three labels of a report for a non-empty input.
ShortTrend(report) == report.trend[2]
MediumTrend(report) == report.trend[4]
Overall(report) == report.trend[6]

\* The trend labels a report carries, whatever its shape.
TrendLabels(report) ==
  IF "total_messages" \in DOMAIN report
  THEN {ShortTrend(report), MediumTrend(report), Overall(report)}
  ELSE {report.trend}

\* The label section 4.4 gives a non-empty window.
WindowTrend(window) ==
  LET positive == Cardinality({i \in DOMAIN window : window[i] \in positive_emotions})
      negative == Cardinality({i \in DOMAIN window : window[i] \in negative_emotions})
  IN IF \A i, j \in DOMAIN window : window[i] = window[j] THEN "stable"
     ELSE IF positive > negative THEN "improving"
     ELSE IF negative > positive THEN "declining"
     ELSE "mixed"

\* C15: for a non-empty input the dominant emotion has the highest
\* occurrence count over the whole input, and among the emotions with that
\* count it is the one that occurs first.
C15_DominantIsFirstMostFrequent ==
  (TrendsCalled /\ Len(arg.emotion_results) > 0) =>
     LET emotions == EmotionsOf(arg.emotion_results)
         dominant == result.dominant_emotion
     IN /\ \E i \in DOMAIN emotions : emotions[i] = dominant
        /\ \A i \in DOMAIN emotions :
              /\ Occurrences(emotions, emotions[i]) <= Occurrences(emotions, dominant)
              /\ Occurrences(emotions, emotions[i]) = Occurrences(emotions, dominant)
                   => FirstOccurrence(emotions, dominant)
                        <= FirstOccurrence(emotions, emotions[i])

\* C15 witness: anger and joy tied for the highest count over more than 10
\* records, anger seen first.
C15_Witness ==
  /\ TrendsCalled /\ Len(arg.emotion_results) > 10
  /\ EmotionOf(arg.emotion_results[1]) = "anger"
  /\ Occurrences(EmotionsOf(arg.emotion_results), "joy")
       = Occurrences(EmotionsOf(arg.emotion_results), "anger")
  /\ result.dominant_emotion = "anger"

\* C16: the trend buffer holds the 10 most recent primary emotions in input
\* order; the short window is the last min(3, n) and the medium window the
\* last min(7, n) of the input, so the labels are those of the last 10
\* records alone.
C16_WindowsAreMostRecent ==
  (TrendsCalled /\ Len(arg.emotion_results) > 0) =>
     LET emotions == EmotionsOf(arg.emotion_results)
     IN /\ RecentEmotions(arg.emotion_results) = Suffix(emotions, 10)
        /\ ShortTrend(result) = CalculateTrend(Suffix(emotions, 3))
        /\ MediumTrend(result) = CalculateTrend(Suffix(emotions, 7))
        /\ result.trend = GetEmotionTrends(Suffix(arg.emotion_results, 10)).trend

\* C16 witness: 12 records, the two oldest evicted, whose short and medium
\* windows differ.
C16_Witness ==
  /\ TrendsCalled /\ Len(arg.emotion_results) = 12
  /\ EmotionOf(arg.emotion_results[1]) = "anger"
  /\ EmotionOf(arg.emotion_results[6]) = "sadness"
  /\ ShortTrend(result) = "stable"
  /\ MediumTrend(result) = "improving"

\* C17: on a non-empty window _calculate_trend returns stable when all
\* entries are identical, whatever their valence; otherwise improving,
\* declining or mixed as positive entries outnumber, are outnumbered by, or
\* equal the negative ones.
C17_TrendOfWindow ==
  (TrendCalled /\ Len(arg.emotions) > 0) => result = WindowTrend(arg.emotions)

\* C17 witness: a window of three identical negative entries.
C17_Witness ==
  /\ TrendCalled
  /\ arg.emotions = <<"anger", "anger", "anger">>
  /\ result = "stable"

\* C18: the overall trend is the short-window trend when the short and the
\* medium window agree, mixed otherwise; joy, joy, anger, joy, joy, joy, joy
\* gives medium improving, short stable, overall mixed.
C18_OverallCombinesWindows ==
  (TrendsCalled /\ Len(arg.emotion_results) > 0) =>
     /\ Overall(result) = IF ShortTrend(result) = MediumTrend(result)
                          THEN ShortTrend(result) ELSE "mixed"
     /\ EmotionsOf(arg.emotion_results)
          = <<"joy", "joy", "anger", "joy", "joy", "joy", "joy">>
          => /\ MediumTrend(result) = "improving"
             /\ ShortTrend(result) = "stable"
             /\ Overall(result) = "mixed"

\* C18 witness: the seven-record example.
C18_Witness ==
  /\ TrendsCalled
  /\ EmotionsOf(arg.emotion_results)
       = <<"joy", "joy", "anger", "joy", "joy", "joy", "joy">>
  /\ Overall(result) = "mixed"

\* C19: a window without entries is reported as insufficient_data, by
\* _calculate_trend and by get_emotion_trends on an empty record sequence.
C19_EmptyGivesInsufficientData ==
  /\ (TrendCalled /\ Len(arg.emotions) = 0) => result = "insufficient_data"
  /\ (TrendsCalled /\ Len(arg.emotion_results) = 0)
       => TrendLabels(result) = {"insufficient_data"}

\* The value of a record's intensity: 1, 2, 3 for low, medium, high, and 1
\* when it is missing or none of the three.
ValueOf(record) ==
  IF "intensity" \notin DOMAIN record THEN 1
  ELSE CASE record.intensity = "low" -> 1
         [] record.intensity = "medium" -> 2
         [] record.intensity = "high" -> 3
         [] OTHER -> 1

RecordsOfValue(records, v) == {i \in DOMAIN records : ValueOf(records[i]) = v}

\* C20: for a non-empty input average_intensity is the mean of the values
\* of all input records, lies between 1 and 3, and a record without
\* primary_emotion is counted as neutral.
C20_AverageOverAllRecords ==
  (TrendsCalled /\ Len(arg.emotion_results) > 0) =>
     LET records == arg.emotion_results
         total == Cardinality(RecordsOfValue(records, 1))
                  + 2 * Cardinality(RecordsOfValue(records, 2))
                  + 3 * Cardinality(RecordsOfValue(records, 3))
     IN /\ result.average_intensity = Frac(total, Len(records))
        /\ FLeq(One, result.average_intensity)
        /\ FLeq(result.average_intensity, Frac(3, 1))
        /\ (\E i \in DOMAIN records : "primary_emotion" \notin DOMAIN records[i])
             => result.emotion_distribution.count["neutral"]
                  >= Cardinality({i \in DOMAIN records :
                                    "primary_emotion" \notin DOMAIN records[i]})

\* C20 witness: 12 records, the oldest of high intensity and outside the
\* trend buffer, one with an unknown intensity and one with none.
C20_Witness ==
  /\ TrendsCalled /\ Len(arg.emotion_results) = 12
  /\ arg.emotion_results[1] = Rec_joy
  /\ arg.emotion_results[6] = Rec_sadness
  /\ arg.emotion_results[7] = Rec_no_intensity
  /\ arg.emotion_results[12] = Rec_anger
  /\ result.average_intensity = Frac(9, 4)

----------------------------------------------------------------------------
(* Conversation history                                                    *)

IsPrefixOf(s, t) == Len(s) <= Len(t) /\ SubSeq(t, 1, Len(s)) = s

\* The last call was a process_message that returned a regular response.
ProcessedMessage ==
  /\ op = "process_message"
  /\ "error" \notin DOMAIN result

\* C14: every step leaves the records already in conversation_history and
\* emotion_history where they were and as they were, and adds at most one
\* record; a process_message that returns a regular response adds exactly
\* one record at the end of each, the record of the message just given.
C14_HistoryIsAppendOnly ==
  [][ /\ IsPrefixOf(conversation_history, conversation_history')
      /\ IsPrefixOf(emotion_history, emotion_history')
      /\ Len(conversation_history') <= Len(conversation_history) + 1
      /\ Len(emotion_history') = Len(conversation_history')
      /\ ProcessedMessage' =>
           /\ Len(conversation_history') = Len(conversation_history) + 1
           /\ conversation_history'[Len(conversation_history')].user_message
                = arg'.user_message.chars
           /\ conversation_history'[Len(conversation_history')].emotion
                = result'.emotion_analysis.primary_emotion
           /\ emotion_history'[Len(emotion_history')].primary_emotion
                = result'.emotion_analysis.primary_emotion
    ]_vars

\* Three messages were given, one of them was not processed, and the two
\* that were are in the history in the order they came.
C14_Witness ==
  /\ ProcessedMessage
  /\ calls = 3
  /\ Len(conversation_history) = 2
  /\ conversation_history[1].user_message = Text_happy
  /\ conversation_history[2].user_message = Text_sad
  /\ emotion_history[1].primary_emotion = "joy"
  /\ emotion_history[2].primary_emotion = "sadness"

----------------------------------------------------------------------------
(* Conversation Profiler                                                   *)

ThemesCalled == op = "_identify_themes"
QualityCalled == op = "_assess_conversation_quality"
RecommendationsCalled == op = "_generate_session_recommendations"

FirstUpTo(s, n) == SubSeq(s, 1, IF Len(s) < n THEN Len(s) ELSE n)

\* The lowercased messages of a history put end to end, nothing in between.
RECURSIVE ConcatLowerFrom(_, _)
ConcatLowerFrom(history, i) ==
  IF i > Len(history) THEN << >>
  ELSE Lower(history[i].user_message) \o ConcatLowerFrom(history, i + 1)

\* A theme has a keyword inside the text.
KeywordIn(t, text) ==
  \E k \in DOMAIN theme_keywords[t] : Contains(text, theme_keywords[t][k])

\* A theme has a keyword inside one of the lowercased messages.
KeywordInSomeMessage(t, history) ==
  \E i \in DOMAIN history : KeywordIn(t, Lower(history[i].user_message))

\* C21 as stated: the themes returned are the first three, in the declared
\* order, of those with a keyword inside the lowercased concatenation of all
\* user messages.
C21_ThemesOfConcatenation ==
  ThemesCalled =>
    result = FirstUpTo(SelectSeq(ThemeOrder,
                         LAMBDA t : KeywordIn(t,
                           ConcatLowerFrom(arg.conversation_history, 1))), 3)

\* C21 amended: at most three themes are returned, and they are the first
\* three, in the declared order, of those with a keyword inside one of the
\* lowercased user messages; the messages are joined by single spaces, so no
\* keyword is found across the end of one message and the start of the next.
C21_ThemesOfJoinedMessages ==
  ThemesCalled =>
    /\ Len(result) <= 3
    /\ result = FirstUpTo(SelectSeq(ThemeOrder,
                            LAMBDA t : KeywordInSomeMessage(t,
                                         arg.conversation_history)), 3)

\* Two messages name all five themes, and the first three are returned.
C21_Witness ==
  /\ ThemesCalled
  /\ Len(arg.conversation_history) = 2
  /\ \A i \in DOMAIN ThemeOrder :
        KeywordInSomeMessage(ThemeOrder[i], arg.conversation_history)
  /\ result = << "work", "relationships", "health" >>

SeqElems(s) == {s[i] : i \in DOMAIN s}
ValenceRecommendations == SeqElems(Rec_support) \cup SeqElems(Rec_positive)
ThemeRecommendations == {Rec_work, Rec_relationships}

\* Number of records of a history with one of sadness, anger, fear.
NegativeCount(history) ==
  Cardinality({i \in DOMAIN history :
                 history[i].emotion \in {"sadness", "anger", "fear"}})

\* C22: at most 4 recommendations are returned, none based on a theme comes
\* before one based on valence, the support pair is there only if more than
\* 0.6 of the records are negative, the positive pair only if fewer than 0.2
\* are, and the two pairs are never both there.
C22_RecommendationsBoundedAndOrdered ==
  RecommendationsCalled =>
    LET history == arg.conversation_history
        n == Len(history)
        neg == NegativeCount(history)
        support == \E i \in DOMAIN result : result[i] \in SeqElems(Rec_support)
        positive == \E i \in DOMAIN result : result[i] \in SeqElems(Rec_positive)
    IN /\ Len(result) <= 4
       /\ \A i, j \in DOMAIN result :
             (result[i] \in ThemeRecommendations
              /\ result[j] \in ValenceRecommendations) => j < i
       /\ support => 10 * neg > 6 * n
       /\ positive => 10 * neg < 2 * n
       /\ ~(support /\ positive)

\* Four of five records are negative and the first message names work and
\* relationships: the support pair, then the two theme recommendations.
C22_Witness ==
  /\ RecommendationsCalled
  /\ Len(arg.conversation_history) = 5
  /\ NegativeCount(arg.conversation_history) = 4
  /\ result = Rec_support \o << Rec_work, Rec_relationships >>

\* C23: on a non-empty history, quality is good exactly when the average
\* message length is above 30 and more than 4 distinct emotions occur, depth
\* is deep exactly when there are more than 5 records and more than 6
\* distinct emotions, engagement_score is min(10, records + distinct), and
\* deep comes with engagement_score 10.
C23_QualityDepthEngagement ==
  (QualityCalled /\ Len(arg.conversation_history) > 0) =>
    LET history == arg.conversation_history
        n == Len(history)
        total == SumMessageLengths(history, 1)
        distinct == Cardinality({history[i].emotion : i \in DOMAIN history})
    IN /\ result.quality = IF total > 30 * n /\ distinct > 4
                           THEN "good" ELSE "basic"
       /\ result.depth = IF n > 5 /\ distinct > 6 THEN "deep" ELSE "moderate"
       /\ result.engagement_score
            = IF n + distinct < 10 THEN n + distinct ELSE 10
       /\ result.depth = "deep" => result.engagement_score = 10

\* Seven records of seven emotions with messages of 31 characters: good,
\* deep, engagement_score 10.
C23_Witness ==
  /\ QualityCalled
  /\ Len(arg.conversation_history) = 7
  /\ result.quality = "good"
  /\ result.depth = "deep"
  /\ result.engagement_score = 10

----------------------------------------------------------------------------
(* Chatbot session                                                         *)

ReadOperations ==
  { "chatbot.get_emotion_trends", "get_conversation_summary",
    "_identify_themes", "_assess_conversation_quality",
    "_generate_session_recommendations" }

MessageCalled == op = "process_message"
InvalidMessage(m) == ~Truthy(m) \/ m.kind # "str"
IsErrorResponse(r) ==
  /\ "error" \in DOMAIN r
  /\ r.response_metadata.response_type = "error"
  /\ r.emotion_analysis.primary_emotion = "neutral"

\* C24: a step of a read operation leaves conversation_history,
\* emotion_history and user_profile as they were, whatever the state and
\* whatever was called before.
C24_ReadsChangeNothing ==
  [][ op' \in ReadOperations =>
        UNCHANGED << conversation_history, emotion_history, user_profile >>
    ]_vars

\* The summary of a session of two processed messages was read: it carries
\* the themes, the quality, the recommendations and the trends.
C24_Witness ==
  /\ op = "get_conversation_summary"
  /\ Len(conversation_history) = 2
  /\ user_profile.total_messages = 2
  /\ result.session_summary.total_messages = 2
  /\ result.conversation_patterns.conversation_quality.engagement_score >= 3
  /\ Len(result.recommendations) > 0
  /\ result.emotional_analysis.trends.total_messages = 2

\* C25: process_message on an empty message or on a value that is not a
\* string does not raise, returns the error response (error field, response
\* type error, primary emotion neutral) and leaves conversation_history,
\* emotion_history and user_profile as they were.
C25_InvalidMessageGivesErrorResponse ==
  [][ (MessageCalled' /\ InvalidMessage(arg'.user_message)) =>
        /\ ~raised'
        /\ IsErrorResponse(result')
        /\ UNCHANGED << conversation_history, emotion_history, user_profile >>
    ]_vars

\* A value that is not a string was given after a message had been
\* processed.
C25_Witness ==
  /\ MessageCalled
  /\ arg.user_message = PyInt(42)
  /\ Len(conversation_history) = 1
  /\ IsErrorResponse(result)
  /\ result.conversation_metadata.message_count = 1

\* The sum of the counts of user_profile.dominant_emotions.
RECURSIVE SumOfCounts(_, _)
SumOfCounts(counts, keys) ==
  IF keys = {} THEN 0
  ELSE LET k == CHOOSE x \in keys : TRUE
       IN counts[k] + SumOfCounts(counts, keys \ {k})

\* C27: in every state of a session, conversation_history, emotion_history,
\* user_profile.total_messages and the sum of the counts of
\* user_profile.dominant_emotions agree, and entry i of conversation_history
\* has the primary emotion of record i of emotion_history.
C27_HistoriesAndProfileAgree ==
  /\ Len(conversation_history) = Len(emotion_history)
  /\ user_profile.total_messages = Len(conversation_history)
  /\ SumOfCounts(user_profile.dominant_emotions,
                 DOMAIN user_profile.dominant_emotions)
       = Len(conversation_history)
  /\ \A i \in DOMAIN conversation_history :
        conversation_history[i].emotion = emotion_history[i].primary_emotion

\* Three messages were given, one was turned away or failed, and the two
\* processed ones carry different emotions.
C27_Witness ==
  /\ calls = 3
  /\ Len(conversation_history) = 2
  /\ conversation_history[1].emotion # conversation_history[2].emotion
  /\ user_profile.total_messages = 2
  /\ DOMAIN user_profile.dominant_emotions = {"joy", "sadness"}

\* C28: when process_message is given a text and returns the error
\* response, which it does when response generation raised, the call has
\* recorded nothing: conversation_history, emotion_history, user_profile and
\* conversation_memory are as before, and message_count is the count from
\* before the call.
C28_FailedGenerationRecordsNothing ==
  [][ (MessageCalled' /\ ~InvalidMessage(arg'.user_message)
       /\ "error" \in DOMAIN result') =>
        /\ IsErrorResponse(result')
        /\ UNCHANGED << conversation_history, emotion_history, user_profile,
                        conversation_memory >>
        /\ result'.conversation_metadata.message_count
             = Len(conversation_history)
    ]_vars

\* C29: in every state of a session, conversation_memory holds at most 5
\* entries, and they are the exchanges of the last min(5, n) entries of
\* conversation_history, in the same order: same text, same emotion.
C29_MemoryFollowsHistory ==
  LET n == Len(conversation_history)
      k == IF n < 5 THEN n ELSE 5
  IN /\ Len(conversation_memory) <= 5
     /\ Len(conversation_memory) = k
     /\ \A i \in 1..k :
          /\ conversation_memory[i].emotion
               = conversation_history[n - k + i].emotion
          /\ conversation_memory[i].user_text
               = conversation_history[n - k + i].user_message

----------------------------------------------------------------------------
(* Response Generator                                                      *)

ContextualCalled == op = "get_contextual_response"

\* The exchange a call that returned has put into the memory.
NewExchange(memory, call) ==
  [user_text |-> call.user_text,
   emotion |-> Get(call.emotion_result, "primary_emotion", "neutral"),
   response |-> call.llm.content,
   timestamp |-> Len(memory)]

\* conversation_memory never holds more than 5 exchanges; a call that
\* returned has put its exchange at the end and, if that made 6, dropped the
\* oldest; a call that raised inside generate_response has left it alone.
MemoryKeepsLastFive ==
  [][ /\ Len(conversation_memory') <= 5
      /\ ContextualCalled' =>
           conversation_memory' =
             IF raised' THEN conversation_memory
             ELSE LastN(Append(conversation_memory,
                               NewExchange(conversation_memory, arg')), 5)
    ]_vars

ContinuityEmotions == {"sadness", "anger", "fear", "joy"}

\* C30: a get_contextual_response that returns gives response_type
\* continuity_aware, with the prefix of the emotion put before the reply,
\* exactly when the memory held at least 2 exchanges before the call, the
\* last two both have the emotion of the current record, and that emotion is
\* one of sadness, anger, fear, joy; otherwise it gives the type of
\* _classify_response_type for the emotion, and the reply as it came.
C30_ContinuityExactlyOnRepeatedEmotion ==
  [][ (ContextualCalled' /\ ~raised') =>
        LET keyed == "primary_emotion" \in DOMAIN arg'.emotion_result
            e == Get(arg'.emotion_result, "primary_emotion", "neutral")
            n == Len(conversation_memory)
            continuing ==
              /\ keyed
              /\ n >= 2
              /\ conversation_memory[n].emotion = e
              /\ conversation_memory[n - 1].emotion = e
              /\ e \in ContinuityEmotions
        IN IF continuing
           THEN /\ result'.response_type = "continuity_aware"
                /\ result'.response
                     = PyStr(continuity_prefixes[e]
                               \o arg'.llm.content.chars)
           ELSE /\ result'.response_type = ClassifyResponseType(e)
                /\ result'.response_type # "continuity_aware"
                /\ result'.response = arg'.llm.content
    ]_vars

\* A third sadness in a row came when the memory was full: the reply is
\* continuity_aware and the oldest exchange has been dropped.
C30_Witness ==
  /\ ContextualCalled /\ ~raised
  /\ result.response_type = "continuity_aware"
  /\ result.emotion_addressed = "sadness"
  /\ Len(conversation_memory) = 5
  /\ conversation_memory[5].timestamp = 5
  /\ conversation_memory[3].emotion = "sadness"
  /\ conversation_memory[2].emotion = "joy"

-----------------------------------------------------------------------------
(* Emotion Detector: the record of the model path                          *)

\* detect_emotion reached the classifier and the classifier returned.
ModelPathTaken == DetectCalled /\ classifier_called /\ ~arg.outcome.raises

\* Position of a label in the taxonomy.
TaxonomyIndex(label) == CHOOSE i \in 1..Len(EmotionOrder) : EmotionOrder[i] = label

\* C26: on the model path of detect_emotion, all_emotions is the culturally
\* adjusted normalization of the classifier's output, primary_emotion is a
\* label with the maximum adjusted score, the first such label in taxonomy
\* order on ties, confidence is that label's adjusted score, and intensity
\* is computed from the adjusted distribution and the text as it was given.
C26_ModelPathRecord ==
  ModelPathTaken =>
    Apply(LAMBDA adjusted :
            /\ result.all_emotions = adjusted
            /\ result.primary_emotion \in DOMAIN adjusted
            /\ \A k \in DOMAIN adjusted :
                 FLeq(adjusted[k], adjusted[result.primary_emotion])
            /\ \A k \in DOMAIN adjusted :
                 TaxonomyIndex(k) < TaxonomyIndex(result.primary_emotion)
                   => FLess(adjusted[k], adjusted[result.primary_emotion])
            /\ result.confidence = adjusted[result.primary_emotion]
            /\ result.original_text = arg.text.chars
            /\ result.intensity = TableLevel(MaxScore(adjusted), arg.text.chars),
          ApplyCulturalContext(ProcessModelOutput(arg.scores, arg.outcome.results),
                               StrContext(arg.context)))

\* The classifier scored joy and neutral alike on a fresh detector, under a
\* context with no adjustment, for a text with exclamation marks: the
\* record names joy, the earlier label, with the shared score, and the
\* intensity is high because of the marks of the given text.
C26_Witness ==
  /\ ModelPathTaken
  /\ arg.scores = InitEmotionScores
  /\ arg.outcome.results = << Item("joy", 9), Item("neutral", 9) >>
  /\ arg.context = Context_nordic
  /\ arg.text = PyStr(Text_sad)
  /\ result.primary_emotion = "joy"
  /\ result.confidence = result.all_emotions["neutral"]
  /\ result.intensity = "high"

=============================================================================
